---- MODULE Spec2Model ----
(***************************************************************************)
(* DanCoreN: the danmaku coordinator (TopDanmakuBehaviorsHandler), its     *)
(* buckets (DanmakuBehaviorHandler) and the always-present columns of      *)
(* StandardColumns, as implemented in src/src/danmaku.                     *)
(*                                                                         *)
(* Conventions.                                                            *)
(*  - Option<T> is a sequence: <<>> is None, <<v>> is Some(v).             *)
(*  - An i128 projectile ID is the pair <<high 64 bits, low 64 bits>> of   *)
(*    signed words: (identifier << 64) + next_dan_identifier is            *)
(*    <<identifier, next_dan_identifier>>, 0 is <<0, 0>>, -1 is <<-1, -1>>.*)
(*  - Scalar columns are vectors over rows 0 .. capacity-1.  Lane-packed   *)
(*    columns (Vec<Simd<_, N>>) are vectors over rows 0 .. blocks*N-1,     *)
(*    row b*N + j being lane j of block b.                                 *)
(*  - A 4x4 model matrix is translation * scaling, kept per axis as the    *)
(*    affine map [s, p]; the matrix product is the composition of maps.    *)
(*  - A Rust panic (index out of bounds, arithmetic overflow in a checked  *)
(*    build) sets `panicked` and ends the run.                             *)
(***************************************************************************)
EXTENDS Integers, Sequences, FiniteSets, TLC

VARIABLES
    N,                       \* lane width of the build (danmaku::N)
    behaviors,               \* TopDanmakuBehaviorsHandler.behaviors
    handlers,                \* TopDanmakuBehaviorsHandler.handlers
    global_family_depth_map, \* TopDanmakuBehaviorsHandler.global_family_depth_map
    global_parent_map,       \* TopDanmakuBehaviorsHandler.global_parent_map
    next_identifier,         \* TopDanmakuBehaviorsHandler.next_identifier
    panicked,                \* a panic unwound out of the last operation
    lastOp,                  \* history: the operation that produced this state
    log,                     \* history: the insertions made by the last operation
    deaths,                  \* history: the deaths observed by the last tick
    dropped,                 \* history: descriptors the last add left uninserted
    issued,                  \* history: every ID handed out so far
    nInserted,               \* history: number of insertions so far
    rendered,                \* result of the last render_data call
    preCleanup,              \* history: the bucket map before the last cleanup
    preCompact,              \* history: the bucket the last compaction took
    trace,                   \* history: the operations so far, in order
    aborted,                 \* history: the operation that panicked, "" if none
    born                     \* history: per ID, the descriptor's end_time and
                             \* signature and the ticks made since insertion

vars == <<N, behaviors, handlers, global_family_depth_map, global_parent_map,
          next_identifier, panicked, lastOp, log, deaths, dropped, issued,
          nInserted, rendered, preCleanup, preCompact, trace, aborted, born>>

----------------------------------------------------------------------------
(* Bounds of the exploration *)

MaxAdds == 2
MaxOps == 4
MaxBulk == 127

\* Lane widths a build can have: 1 without native SIMD, 4 for 128-bit SIMD.
LaneWidths == {1, 4}

----------------------------------------------------------------------------
(* Helpers *)

Range(s) == {s[i] : i \in DOMAIN s}

DivCeil(a, b) == (a + b - 1) \div b

Pow2(k) == 2 ^ k

\* The largest i16: the largest end_time a descriptor can carry.
I16Max == 32767

\* i16 arithmetic of Simd<i16, N>: wraps around.
Wrap16(x) == ((x + 32768) % 65536) - 32768

\* Op folded over lo .. hi in ascending order, starting from acc.  The range
\* is split in halves and each half is evaluated before the next starts; the
\* result is that of the plain left-to-right loop.
RECURSIVE FoldRange(_, _, _, _)
FoldRange(Op(_, _), acc, lo, hi) ==
    IF lo > hi THEN acc
    ELSE IF lo = hi THEN Op(acc, lo)
    ELSE LET mid == (lo + hi) \div 2
             left == FoldRange(Op, acc, lo, mid)
         IN IF left = left THEN FoldRange(Op, left, mid + 1, hi) ELSE acc

\* The members of S (a set of row numbers below bound) in ascending order.
SetToSortedSeq(S, bound) ==
    SelectSeq([k \in 1 .. bound |-> k - 1], LAMBDA r : r \in S)

Flatten(ss) == FoldRange(LAMBDA acc, k : acc \o ss[k], <<>>, 1, Len(ss))

RECURSIVE Perms(_)
Perms(S) ==
    IF S = {} THEN {<<>>}
    ELSE UNION {{<<x>> \o p : p \in Perms(S \ {x})} : x \in S}

\* F applied to x: the value of x is computed once and named by F's
\* parameter.
With(x, F(_)) == F(x)

RECURSIVE AnyOrder(_)
AnyOrder(S) ==
    IF S = {} THEN <<>>
    ELSE LET x == CHOOSE y \in S : TRUE IN <<x>> \o AnyOrder(S \ {x})

\* The iteration orders of a HashMap with the given keys, up to the position
\* of the keys in `quiet`: those whose visit leaves nothing behind that
\* depends on when it happens.
IterationOrders(keys, quiet) ==
    {p \o AnyOrder(keys \cap quiet) : p \in Perms(keys \ quiet)}

MinusOne == <<-1, -1>>
Zero128 == <<0, 0>>

----------------------------------------------------------------------------
(* Behaviors *)

MANDATORY_END_BEHAVIOR_ID == "mandatory_end"

\* mandatory_end() as registered: it requires no column.
MandatoryEndBehavior ==
    [identifier |-> MANDATORY_END_BEHAVIOR_ID, required_columns |-> {}]

\* Behaviors an embedder registers through register_behavior: `appearance`
\* requires the Appearance, PosX and ScaleX columns (no catalog behavior
\* requires Appearance), `tag` requires nothing; their acts change no column.
AppearanceBehavior ==
    [identifier |-> "appearance",
     required_columns |-> {"Appearance", "PosX", "ScaleX"}]
TagBehavior == [identifier |-> "tag", required_columns |-> {}]

\* The catalog behaviors motion1, gravity1, acceleration1 and motion3 as
\* registered: identifier and required columns.
Motion1Behavior ==
    [identifier |-> "motion1", required_columns |-> {"PosZ", "MotionZ"}]
Gravity1Behavior ==
    [identifier |-> "gravity1", required_columns |-> {"MotionY", "GravityY"}]
Acceleration1Behavior ==
    [identifier |-> "acceleration1",
     required_columns |-> {"MotionZ", "SpeedAccel"}]
Motion3Behavior ==
    [identifier |-> "motion3",
     required_columns |-> {"PosX", "PosY", "PosZ", "MotionX", "MotionY", "MotionZ"}]
\* rotate_orientation as the catalog declares it.
RotateOrientationBehavior ==
    [identifier |-> "rotate_orientation",
     required_columns |-> {"Rotation", "Orientation"}]
\* gravity3 as the catalog declares it.
Gravity3Behavior ==
    [identifier |-> "gravity3", required_columns |-> {"MotionY", "GravityY"}]

RegisterBehavior(reg, b) ==
    [i \in (DOMAIN reg) \cup {b.identifier} |->
        IF i = b.identifier THEN b ELSE reg[i]]

----------------------------------------------------------------------------
(* Spawn descriptors: DanmakuSpawnData *)

\* behavior_data is a sequence of [kind, v]; render_properties is not modelled.
Descriptor(end_time, behavior_data, sig, add_data, next_stage, parent, children, depth) ==
    [end_time |-> end_time, behavior_data |-> behavior_data, behaviors |-> sig,
     next_stage_add_data |-> add_data, next_stage |-> next_stage,
     parent |-> parent, children |-> children, family_depth |-> depth]

RECURSIVE update_children_depth(_)
update_children_depth(d) ==
    [d EXCEPT !.children =
        [c \in DOMAIN d.children |->
            update_children_depth(
                [d.children[c] EXCEPT !.family_depth = d.family_depth + 1])]]

\* set_family_depth: the descriptor afterwards and whether it resolved.
set_family_depth(d, depth_map) ==
    IF d.family_depth # -1 THEN [ok |-> TRUE, d |-> d]
    ELSE IF d.parent = <<>> THEN [ok |-> TRUE, d |-> [d EXCEPT !.family_depth = 0]]
    ELSE IF d.parent[1] \in DOMAIN depth_map
         THEN [ok |-> TRUE,
               d |-> update_children_depth(
                        [d EXCEPT !.family_depth = depth_map[d.parent[1]]])]
         ELSE [ok |-> FALSE, d |-> d]

----------------------------------------------------------------------------
(* StandardColumns.  The always-present columns are record fields; the      *)
(* lane-packed attribute columns are the function `packed` from column name *)
(* to rows, the empty function for a column that is not allocated.          *)
(* Attribute values are integers (a fixed-point scale of the f32 values).   *)
(* The scalar attribute columns (orientation, old_orientation, rotation,    *)
(* form, render_properties) hold nothing the coordinator reads back here:   *)
(* no behavior of the registry requires Orientation or Rotation.            *)

\* A Vec<T> is [len, fill, at]: its length, a default value, and the rows
\* whose value differs from the default (`at` never maps a row to `fill`, so
\* equal vectors are equal records).
Fill(n, v) == [len |-> n, fill |-> v, at |-> [r \in {} |-> v]]

Len0(f) == f.len

Has(f, r) == r \in 0 .. f.len - 1

Get(f, r) == IF r \in DOMAIN f.at THEN f.at[r] ELSE f.fill

Put(f, r, v) ==
    LET D == IF v = f.fill THEN (DOMAIN f.at) \ {r} ELSE (DOMAIN f.at) \cup {r}
    IN [f EXCEPT !.at = [x \in D |-> IF x = r THEN v ELSE f.at[x]]]

\* The rows in S rewritten to F(row, old value).
MapRows(f, S, F(_, _)) ==
    LET val(r) == IF r \in S THEN F(r, Get(f, r)) ELSE Get(f, r)
        D == {r \in (DOMAIN f.at) \cup S : val(r) # f.fill}
    IN [f EXCEPT !.at = [r \in D |-> val(r)]]

Dense(f) == [r \in 0 .. f.len - 1 |-> Get(f, r)]

FromDense(g, v) ==
    [len |-> Cardinality(DOMAIN g), fill |-> v,
     at |-> [r \in {x \in DOMAIN g : g[x] # v} |-> g[r]]]

\* Vec::resize(new_len, value): truncate or extend with value.
VecResize(f, new_len, v) ==
    LET D == {r \in DOMAIN f.at : r < new_len}
             \cup (IF v # f.fill THEN f.len .. new_len - 1 ELSE {})
    IN [len |-> new_len, fill |-> f.fill,
        at |-> [r \in D |-> IF r < f.len THEN f.at[r] ELSE v]]

\* Rows of a lane-packed column that holds max_column_size slots:
\* max_column_size.div_ceil(N) blocks of n lanes.
SimdRows(max_column_size, n) == DivCeil(max_column_size, n) * n

\* One line per lane-packed attribute column: the column kind that makes
\* new() allocate it and its initial value, the column kind under which
\* resize() resizes it (<<>>: resize never touches it) and the fill value
\* resize uses, and the fill value compact() uses.
PC(name, alloc, init, rkind, rfill, cfill) ==
    [name |-> name, alloc |-> alloc, init |-> init,
     rkind |-> rkind, rfill |-> rfill, cfill |-> cfill]

PackedColumns ==
    << PC("pos_x", "PosX", 0, <<"PosX">>, 0, 0),
       PC("pos_y", "PosY", 0, <<"PosY">>, 0, 0),
       PC("pos_z", "PosZ", 0, <<"PosZ">>, 0, 0),
       PC("old_pos_x", "PosX", 0, <<"PosX">>, 0, 0),
       PC("old_pos_y", "PosY", 0, <<"PosY">>, 0, 0),
       PC("old_pos_z", "PosZ", 0, <<"PosZ">>, 0, 0),
       PC("scale_x", "ScaleX", 0, <<"ScaleX">>, 0, 0),
       PC("scale_y", "ScaleX", 0, <<"ScaleY">>, 0, 0),
       PC("scale_z", "ScaleX", 0, <<"ScaleZ">>, 0, 0),
       PC("old_scale_x", "ScaleX", 0, <<>>, 0, 0),
       PC("old_scale_y", "ScaleY", 0, <<>>, 0, 0),
       PC("old_scale_z", "ScaleZ", 0, <<>>, 0, 0),
       PC("main_color", "MainColor", 0, <<"MainColor">>, 0, 0),
       PC("secondary_color", "SecondaryColor", 0, <<"SecondaryColor">>, 0, 0),
       PC("old_main_color", "MainColor", 0, <<"MainColor">>, 0, 0),
       PC("old_secondary_color", "SecondaryColor", 0, <<"SecondaryColor">>, 0, 0),
       PC("damage", "Damage", 0, <<"Damage">>, 0, 0),
       PC("motion_x", "MotionX", 0, <<"MotionX">>, 0, 0),
       PC("motion_y", "MotionY", 0, <<"MotionY">>, 0, 0),
       PC("motion_z", "MotionZ", 0, <<"MotionZ">>, 0, 0),
       PC("gravity_x", "GravityX", 0, <<"MotionX">>, 0, 0),
       PC("gravity_y", "GravityY", 0, <<"MotionY">>, 0, 0),
       PC("gravity_z", "GravityZ", 0, <<"MotionZ">>, 0, 0),
       PC("speed_accel", "SpeedAccel", 0, <<"SpeedAccel">>, 0, 0),
       PC("forward_x", "Forward", 1, <<"Forward">>, 1, 1),
       PC("forward_y", "Forward", 1, <<"Forward">>, 0, 1),
       PC("forward_z", "Forward", 1, <<"Forward">>, 0, 1) >>

PackedNames == {PackedColumns[k].name : k \in DOMAIN PackedColumns}

PackedSpec(name) ==
    PackedColumns[CHOOSE k \in DOMAIN PackedColumns : PackedColumns[k].name = name]

Identity4 == [s |-> <<1, 1, 1>>, p |-> <<0, 0, 0>>]

\* UnitQuaternion: a rotation is the sequence of quarter turns about the x
\* and y axes it is built from, the identity is the empty sequence and the
\* product a * b is a followed by b; the product is not commutative.
QIdentity == <<>>
QMul(a, b) == a \o b

\* The quaternion columns with the column kind that makes new() allocate
\* them and resize() resize them.
QuatKind(name) ==
    CASE name = "orientation" -> "Orientation"
      [] name = "old_orientation" -> "Orientation"
      [] name = "rotation" -> "Rotation"

QuatNames == {"orientation", "old_orientation", "rotation"}

ColumnsNew(max_column_size, required, n) ==
    [required_columns |-> required,
     id |-> Fill(max_column_size, Zero128),
     packed |-> [name \in PackedNames |->
                    IF PackedSpec(name).alloc \in required
                    THEN Fill(SimdRows(max_column_size, n), PackedSpec(name).init)
                    ELSE Fill(0, 0)],
     quats |-> [name \in QuatNames |->
                  IF QuatKind(name) \in required
                  THEN Fill(max_column_size, QIdentity)
                  ELSE Fill(0, QIdentity)],
     ticks_existed |-> Fill(SimdRows(max_column_size, n), 0),
     end_time |-> Fill(SimdRows(max_column_size, n), 0),
     dead |-> Fill(max_column_size, FALSE),
     next_stage |-> Fill(max_column_size, <<>>),
     next_stage_add_data |-> Fill(max_column_size, {}),
     parent |-> Fill(max_column_size, MinusOne),
     transform_mats |-> Fill(max_column_size, Identity4),
     family_depth |-> Fill(max_column_size, 0),
     current_dead |-> <<>>,
     add_spawns |-> <<>>]

\* A resize that leaves every column as it is.
ColumnsKept(c, new_max_size, n) == c

ColumnsResize(c, new_max_size, n) ==
    [c EXCEPT
        !.id = VecResize(@, new_max_size, Zero128),
        !.packed = [name \in PackedNames |->
                      IF PackedSpec(name).rkind # <<>>
                         /\ PackedSpec(name).rkind[1] \in c.required_columns
                      THEN VecResize(@[name], SimdRows(new_max_size, n),
                                     PackedSpec(name).rfill)
                      ELSE @[name]],
        !.quats = [name \in QuatNames |->
                     IF QuatKind(name) \in c.required_columns
                     THEN VecResize(@[name], new_max_size, QIdentity)
                     ELSE @[name]],
        !.ticks_existed = VecResize(@, SimdRows(new_max_size, n), 0),
        !.end_time = VecResize(@, SimdRows(new_max_size, n), 0),
        !.dead = VecResize(@, new_max_size, FALSE),
        !.next_stage = VecResize(@, new_max_size, <<>>),
        !.next_stage_add_data = VecResize(@, new_max_size, {}),
        !.parent = VecResize(@, new_max_size, MinusOne),
        !.transform_mats = VecResize(@, new_max_size, Identity4),
        !.family_depth = VecResize(@, new_max_size, 0)]

\* compact_vec: retain the elements whose position is not marked in `remove`
\* (positions past the end of `remove` are kept), then resize.
compact_vec(f, remove, new_max_size, value) ==
    LET kept == SetToSortedSeq({r \in 0 .. f.len - 1 :
                    ~(IF Has(remove, r) THEN Get(remove, r) ELSE FALSE)}, f.len)
        retained == [r \in 0 .. Len(kept) - 1 |-> Get(f, kept[r + 1])]
    IN VecResize(FromDense(retained, f.fill), new_max_size, value)

\* compact_simd, block by block.  For block idx the mask is read from
\* remove[idx / N .. idx / N + N), the unmasked lanes are stored at their lane
\* offset from stored_so_far, and stored_so_far advances by the number of
\* unmasked lanes.  Slicing new_vec past its end panics.
compact_simd_block(acc, f, remove, n, idx) ==
    LET from == idx \div n
    IN IF acc.panic THEN acc
       ELSE IF from + n > remove.len \/ acc.stored_so_far + n > acc.new_vec.len
       THEN [acc EXCEPT !.panic = TRUE]
       ELSE LET keep == {j \in 0 .. n - 1 : ~Get(remove, from + j)}
            IN [panic |-> FALSE,
                new_vec |-> MapRows(acc.new_vec,
                                    {acc.stored_so_far + j : j \in keep},
                                    LAMBDA r, old : Get(f, idx * n + (r - acc.stored_so_far))),
                stored_so_far |-> acc.stored_so_far + Cardinality(keep)]

compact_simd(f, remove, new_max_size, value, n) ==
    LET r == FoldRange(LAMBDA acc, idx : compact_simd_block(acc, f, remove, n, idx),
                       [panic |-> FALSE, new_vec |-> Fill(new_max_size, value),
                        stored_so_far |-> 0],
                       0, (f.len \div n) - 1)
        rows == SimdRows(new_max_size, n)
    IN IF r.panic \/ rows > new_max_size
       THEN [panic |-> TRUE, vec |-> f]
       ELSE [panic |-> FALSE, vec |-> VecResize(r.new_vec, rows, value)]

ColumnsCompact(c, new_max_size, n) ==
    LET t == compact_simd(c.ticks_existed, c.dead, new_max_size, 0, n)
        e == compact_simd(c.end_time, c.dead, new_max_size, 0, n)
        pk == [name \in PackedNames |->
                 compact_simd(c.packed[name], c.dead, new_max_size,
                              PackedSpec(name).cfill, n)]
        trues == Cardinality({r \in 0 .. c.dead.len - 1 : Get(c.dead, r)})
    IN [panic |-> t.panic \/ e.panic \/ \E name \in PackedNames : pk[name].panic,
        columns |->
          [c EXCEPT
             !.id = compact_vec(@, c.dead, new_max_size, MinusOne),
             !.parent = compact_vec(@, c.dead, new_max_size, MinusOne),
             !.packed = [name \in PackedNames |-> pk[name].vec],
             !.quats = [name \in QuatNames |->
                          compact_vec(@[name], c.dead, new_max_size, QIdentity)],
             !.ticks_existed = t.vec,
             !.end_time = e.vec,
             !.family_depth = compact_vec(@, c.dead, new_max_size, 0),
             !.next_stage = compact_vec(@, c.dead, new_max_size, <<>>),
             !.next_stage_add_data = compact_vec(@, c.dead, new_max_size, {}),
             !.transform_mats = compact_vec(@, c.dead, new_max_size, Identity4),
             \* self.dead.retain(|d| *d); self.dead.resize(new_max_size, false)
             !.dead = VecResize(FromDense([r \in 0 .. trues - 1 |-> TRUE], FALSE),
                                new_max_size, FALSE),
             !.current_dead = <<>>]]

\* The row that `vec[i.div_ceil(N)][i % N]` names.
WriteRow(i, n) == DivCeil(i, n) * n + (i % n)

\* The match of add_danmaku_at_idx: for each kind of StandardSpawnData the
\* transfer_data_simd calls it makes, as <<required column kind, column>>.
TransferTargets(kind) ==
    CASE kind = "PosX" -> << <<"PosX", "pos_x">>, <<"PosX", "old_pos_x">> >>
      [] kind = "PosY" -> << <<"PosY", "pos_y">>, <<"PosY", "old_pos_y">> >>
      [] kind = "PosZ" -> << <<"PosZ", "pos_z">>, <<"PosZ", "old_pos_z">> >>
      [] kind = "MainColor" ->
            << <<"MainColor", "main_color">>, <<"MainColor", "old_main_color">> >>
      [] kind = "SecondaryColor" ->
            << <<"SecondaryColor", "secondary_color">>,
               <<"SecondaryColor", "old_secondary_color">> >>
      [] kind = "Damage" -> << <<"Damage", "damage">> >>
      [] kind = "SizeX" -> << <<"ScaleX", "scale_x">>, <<"ScaleX", "old_scale_x">> >>
      [] kind = "SizeY" -> << <<"ScaleY", "scale_y">>, <<"ScaleY", "old_scale_y">> >>
      [] kind = "SizeZ" -> << <<"ScaleZ", "scale_z">>, <<"ScaleZ", "old_scale_z">> >>
      [] kind = "MotionX" -> << <<"MotionX", "motion_x">> >>
      [] kind = "MotionY" -> << <<"MotionY", "motion_x">> >>
      [] kind = "MotionZ" -> << <<"MotionZ", "motion_x">> >>
      [] kind = "GravityX" -> << <<"GravityX", "motion_x">> >>
      [] kind = "GravityY" -> << <<"GravityY", "motion_x">> >>
      [] kind = "GravityZ" -> << <<"GravityZ", "motion_x">> >>
      [] kind = "SpeedAccel" -> << <<"SpeedAccel", "speed_accel">> >>
      [] kind = "Orientation" -> <<>>
      [] kind = "Rotation" -> <<>>

\* The transfer_data calls add_danmaku_at_idx makes for Orientation and
\* Rotation data, as <<required column kind, column>>.
QuatTargets(kind) ==
    CASE kind = "Orientation" ->
            << <<"Orientation", "orientation">>, <<"Orientation", "old_orientation">> >>
      [] kind = "Rotation" -> << <<"Rotation", "rotation">> >>
      [] OTHER -> <<>>

QuatTransfers(behavior_data) ==
    Flatten([k \in 1 .. Len(behavior_data) |->
        [t \in 1 .. Len(QuatTargets(behavior_data[k].kind)) |->
            <<QuatTargets(behavior_data[k].kind)[t][1],
              QuatTargets(behavior_data[k].kind)[t][2],
              behavior_data[k].v>>]])

\* transfer_data, one call after the other: vec[i] = data under the gate.
RECURSIVE transfer_quats(_, _, _, _, _)
transfer_quats(quats, required, ts, k, i) ==
    IF k > Len(ts) THEN [panic |-> FALSE, quats |-> quats]
    ELSE IF ts[k][1] \notin required THEN transfer_quats(quats, required, ts, k + 1, i)
    ELSE IF ~Has(quats[ts[k][2]], i) THEN [panic |-> TRUE, quats |-> quats]
    ELSE transfer_quats([quats EXCEPT ![ts[k][2]] = Put(@, i, ts[k][3])],
                        required, ts, k + 1, i)

\* The transfer_data_simd calls for a whole attribute list, in order, as
\* <<required column kind, column, value>>.
Transfers(behavior_data) ==
    Flatten([k \in 1 .. Len(behavior_data) |->
        [t \in 1 .. Len(TransferTargets(behavior_data[k].kind)) |->
            <<TransferTargets(behavior_data[k].kind)[t][1],
              TransferTargets(behavior_data[k].kind)[t][2],
              behavior_data[k].v>>]])

\* transfer_data_simd, one call after the other.
RECURSIVE transfer_all(_, _, _, _, _, _)
transfer_all(packed, required, ts, k, i, n) ==
    IF k > Len(ts) THEN [panic |-> FALSE, packed |-> packed]
    ELSE IF ts[k][1] \notin required THEN transfer_all(packed, required, ts, k + 1, i, n)
    ELSE IF ~Has(packed[ts[k][2]], WriteRow(i, n))
    THEN [panic |-> TRUE, packed |-> packed]
    ELSE transfer_all([packed EXCEPT
                          ![ts[k][2]] = Put(@, WriteRow(i, n), ts[k][3])],
                      required, ts, k + 1, i, n)

\* A return value that hands every child back twice.
ReturnedChildrenTwice(danmaku) == danmaku.children \o danmaku.children

\* What add_danmaku_at_idx returns: the children moved out of the descriptor.
ReturnedChildren(danmaku) == danmaku.children

add_danmaku_at_idx(c, i, danmaku, id, n) ==
    LET t == transfer_all(c.packed, c.required_columns,
                          Transfers(danmaku.behavior_data), 1, i, n)
        q == transfer_quats(c.quats, c.required_columns,
                            QuatTransfers(danmaku.behavior_data), 1, i)
    IN IF \/ ~Has(c.id, i) \/ t.panic \/ q.panic
          \/ ~Has(c.ticks_existed, WriteRow(i, n))
       THEN [panic |-> TRUE, columns |-> c, children |-> <<>>]
       ELSE [panic |-> FALSE,
             columns |->
               [c EXCEPT
                  !.id = Put(@, i, id),
                  !.packed = t.packed,
                  !.quats = q.quats,
                  !.ticks_existed = Put(@, WriteRow(i, n), 0),
                  !.end_time = Put(@, WriteRow(i, n), danmaku.end_time),
                  !.dead = Put(@, i, FALSE),
                  !.next_stage = Put(@, i, danmaku.next_stage),
                  !.next_stage_add_data = Put(@, i, danmaku.next_stage_add_data),
                  !.parent = Put(@, i, IF danmaku.parent = <<>> THEN MinusOne
                                       ELSE danmaku.parent[1]),
                  !.family_depth = Put(@, i, danmaku.family_depth),
                  !.transform_mats = Put(@, i, Identity4)],
             children |-> ReturnedChildren(danmaku)]

----------------------------------------------------------------------------
(* DanmakuBehaviorHandler: one bucket *)

InitSizeExp == 7

HandlerNew(identifier, sig, always_keep, reg, n) ==
    LET required_main_columns == UNION {reg[sig[b]].required_columns : b \in DOMAIN sig}
        size_exp == InitSizeExp
        max_size == Pow2(size_exp)
    IN [always_keep |-> always_keep,
        identifier |-> identifier,
        next_dan_identifier |-> 0,
        size_exp |-> size_exp,
        current_size |-> 0,
        behaviors |-> sig,
        columns |-> ColumnsNew(max_size, required_main_columns, n)]

current_max_size(h) == Pow2(h.size_exp)

dead(h) == Len(h.columns.current_dead)

\* count(): usize subtraction.  When it would go below zero a build with
\* overflow checks panics and a build without them wraps to a huge value.
CountUnderflows(h) == h.current_size < dead(h)
count(h) == IF CountUnderflows(h) THEN Pow2(30) ELSE h.current_size - dead(h)

\* current_size + 0.1 * max > max, over tenths.
should_resize_up_soon(h) ==
    IF h.size_exp > 30 THEN FALSE
    ELSE 10 * h.current_size + current_max_size(h) > 10 * current_max_size(h)

\* surplus_if_step_down > 0.1 * step_down_max_size, over tenths.
should_resize_down_soon(h) ==
    IF h.size_exp < 8 THEN FALSE
    ELSE LET step_down_max_size == Pow2(h.size_exp - 1)
             surplus_if_step_down == step_down_max_size - h.current_size
         IN 10 * surplus_if_step_down > step_down_max_size

must_resize_before_add(h, length) ==
    h.current_size + length >= current_max_size(h)

\* `step_down_max_size - self.current_size` is a usize subtraction: when
\* current_size is the larger a build with overflow checks panics and a build
\* without them wraps to a value far above 0.1 * step_down_max_size.
SurplusUnderflows(h) == h.size_exp >= 8 /\ Pow2(h.size_exp - 1) < h.current_size

\* The step-down branch of resize.
step_down(h, n) ==
    With(ColumnsCompact(h.columns, Pow2(h.size_exp - 1), n), LAMBDA c :
      [panic |-> c.panic,
       h |-> [h EXCEPT !.size_exp = @ - 1,
                       !.columns = c.columns,
                       !.current_size = @ - dead(h)]])

resize(h, force_up, n) ==
    IF force_up \/ should_resize_up_soon(h)
    THEN [panic |-> FALSE,
          h |-> [h EXCEPT !.size_exp = @ + 1,
                          !.columns = ColumnsResize(@, Pow2(h.size_exp + 1), n)]]
    ELSE IF should_resize_down_soon(h)
    THEN step_down(h, n)
    ELSE [panic |-> FALSE, h |-> h]

\* An ID computation that leaves out the bucket's identifier.
ThisIdWithoutBucket(identifier, next_dan_identifier) == <<0, next_dan_identifier>>

\* ((identifier as i128) << 64) + (next_dan_identifier as i128)
ThisId(identifier, next_dan_identifier) == <<identifier, next_dan_identifier>>

\* add_danmaku_with_preffered_index on bucket h.  idx is Option<usize>.
\* Returns the bucket, the two global maps, the children to route and the
\* record of the insertion.
add_danmaku_with_preffered_index(h, danmaku, idx, depth_map, parent_map, n) ==
    With(IF idx # <<>> /\ (IF Has(h.columns.dead, idx[1])
                           THEN Get(h.columns.dead, idx[1]) ELSE FALSE)
         THEN idx ELSE <<>>, LAMBDA idx_with_filter :
    With(IF idx_with_filter # <<>> THEN idx_with_filter[1] ELSE h.current_size,
         LAMBDA i :
    With(IF must_resize_before_add(h, IF idx_with_filter # <<>> THEN 0 ELSE 1)
         THEN resize(h, TRUE, n)
         ELSE [panic |-> FALSE, h |-> h], LAMBDA rz :
    With(ThisId(h.identifier, h.next_dan_identifier), LAMBDA this_id :
    With([rz.h EXCEPT !.current_size = @ + 1, !.next_dan_identifier = @ + 1],
         LAMBDA h2 :
    With(add_danmaku_at_idx(
             h2.columns, i,
             \* for c in danmaku.children: c.parent = Some(this_id)
             [danmaku EXCEPT !.children =
                 [c \in DOMAIN danmaku.children |->
                     [danmaku.children[c] EXCEPT !.parent = <<this_id>>]]],
             this_id, n), LAMBDA a :
      [panic |-> rz.panic \/ a.panic,
       h |-> [h2 EXCEPT !.columns = a.columns],
       depth_map |->
         [x \in (DOMAIN depth_map) \cup {this_id} |->
            IF x = this_id THEN danmaku.family_depth ELSE depth_map[x]],
       parent_map |->
         IF danmaku.parent = <<>> THEN parent_map
         ELSE [x \in (DOMAIN parent_map) \cup {this_id} |->
                 IF x = this_id THEN danmaku.parent[1] ELSE parent_map[x]],
       children |-> a.children,
       entry |-> [id |-> this_id,
                  descriptor |-> danmaku,
                  bucket |-> h.identifier,
                  bucket_behaviors |-> h.behaviors,
                  idx |-> idx,
                  reused |-> idx_with_filter # <<>>,
                  i |-> i,
                  written |-> ~a.panic /\ Get(a.columns.id, i) = this_id,
                  dead_at_i |-> IF Has(h.columns.dead, i)
                                THEN Get(h.columns.dead, i) ELSE FALSE,
                  size_before |-> h.current_size,
                  size_after |-> h2.current_size,
                  exp_before |-> h.size_exp,
                  exp_after |-> h2.size_exp]]))))))

----------------------------------------------------------------------------
(* Behavior acts over the always-present columns *)

\* What a dying slot appends to add_spawns: a single successor carries the
\* slot as preferred index, any other number of successors carries none.
Emitted(next_stages, idx) ==
    IF Len(next_stages) = 1
    THEN <<[d |-> next_stages[1], idx |-> <<idx>>]>>
    ELSE [k \in 1 .. Len(next_stages) |-> [d |-> next_stages[k], idx |-> <<>>]]

\* The match of mandatory_end::act over a next-stage attribute: whether the
\* slot's value is added (when `tag` is in both the required set and the
\* slot's additive mask) or overwrites (when `tag` is required), and the
\* column it is read from.
AS(mode, tag, col) == [mode |-> mode, tag |-> tag, col |-> col]

AdditiveSource(kind) ==
    CASE kind = "PosX" -> AS("add", "PosY", "pos_x")
      [] kind = "PosY" -> AS("add", "PosY", "pos_y")
      [] kind = "PosZ" -> AS("add", "PosY", "pos_z")
      [] kind = "MainColor" -> AS("overwrite", "MainColor", "main_color")
      [] kind = "SecondaryColor" -> AS("overwrite", "SecondaryColor", "secondary_color")
      [] kind = "Damage" -> AS("add", "Damage", "damage")
      [] kind = "SizeX" -> AS("add", "ScaleX", "scale_x")
      [] kind = "SizeY" -> AS("add", "ScaleY", "scale_y")
      [] kind = "SizeZ" -> AS("add", "ScaleZ", "scale_z")
      [] kind = "MotionX" -> AS("add", "MotionX", "motion_x")
      [] kind = "MotionY" -> AS("add", "MotionY", "motion_y")
      [] kind = "MotionZ" -> AS("add", "MotionZ", "motion_z")
      [] kind = "GravityX" -> AS("add", "GravityX", "gravity_x")
      [] kind = "GravityY" -> AS("add", "GravityY", "gravity_y")
      [] kind = "GravityZ" -> AS("add", "GravityZ", "gravity_z")
      [] kind = "SpeedAccel" -> AS("add", "SpeedAccel", "speed_accel")

\* Whether adjusting attribute `datum` for dying row idx reads a column.
AdjustReads(datum, c, idx) ==
    LET src == AdditiveSource(datum.kind)
    IN IF src.mode = "add"
       THEN src.tag \in (c.required_columns \cap Get(c.next_stage_add_data, idx))
       ELSE src.tag \in c.required_columns

AdjustDatum(datum, c, idx) ==
    LET src == AdditiveSource(datum.kind)
    IN IF ~AdjustReads(datum, c, idx) THEN datum
       ELSE IF src.mode = "add"
       THEN [datum EXCEPT !.v = @ + Get(c.packed[src.col], idx)]
       ELSE [datum EXCEPT !.v = Get(c.packed[src.col], idx)]

\* An adjustment that indexes a column with no such row panics.
AdjustPanics(next_stages, c, idx) ==
    \E k \in DOMAIN next_stages : \E m \in DOMAIN next_stages[k].behavior_data :
        /\ AdjustReads(next_stages[k].behavior_data[m], c, idx)
        /\ ~Has(c.packed[AdditiveSource(next_stages[k].behavior_data[m].kind).col],
                idx)

Adjusted(next_stages, c, idx) ==
    [k \in DOMAIN next_stages |->
        [next_stages[k] EXCEPT !.behavior_data =
            [m \in DOMAIN @ |-> AdjustDatum(@[m], c, idx)]]]

\* history: what the dying row idx holds in the column of each attribute kind
\* of its next stages (0 where the bucket has no such column).
Held(next_stages, c, idx) ==
    [kind \in UNION {{next_stages[k].behavior_data[m].kind :
                        m \in DOMAIN next_stages[k].behavior_data} :
                     k \in DOMAIN next_stages} |->
        IF Has(c.packed[AdditiveSource(kind).col], idx)
        THEN Get(c.packed[AdditiveSource(kind).col], idx)
        ELSE 0]

\* mandatory_end::act.  The block loop visits rows 0 .. size.div_ceil(N)*N - 1
\* and indexes the slices next_stage_add_data[0..size], next_stage[0..size] and
\* dead[0..size] with the row number, which panics on the first row >= size.
mandatory_end_act(c, size, n) ==
    LET blocks == DivCeil(size, n)
        ticks == MapRows(c.ticks_existed, 0 .. blocks * n - 1,
                         LAMBDA r, old : Wrap16(old + 1))
        this_dead(idx) == Get(ticks, idx) > Get(c.end_time, idx)
        already == Range(c.current_dead)
        newly == {idx \in 0 .. size - 1 : this_dead(idx) /\ idx \notin already}
        order == SetToSortedSeq(newly, size)
        emit(idx) == Emitted(Adjusted(Get(c.next_stage, idx), c, idx), idx)
    IN IF \/ size > Len0(c.dead)
          \/ blocks * n > Len0(c.ticks_existed)
          \/ blocks * n > size
          \/ \E idx \in newly : AdjustPanics(Get(c.next_stage, idx), c, idx)
       THEN [panic |-> TRUE, columns |-> c, deaths |-> <<>>]
       ELSE [panic |-> FALSE,
             columns |->
               [c EXCEPT
                  !.ticks_existed = ticks,
                  !.current_dead = @ \o order,
                  !.next_stage = MapRows(@, newly, LAMBDA r, old : <<>>),
                  !.add_spawns = @ \o Flatten([k \in 1 .. Len(order) |->
                                                 emit(order[k])]),
                  !.dead = MapRows(@, 0 .. size - 1,
                                   LAMBDA r, old : old \/ this_dead(r))],
             \* history: the slots holding an inserted projectile that go from
             \* not dead to dead in this call
             deaths |->
               LET dying == SetToSortedSeq({idx \in 0 .. size - 1 :
                               /\ this_dead(idx)
                               /\ ~Get(c.dead, idx)
                               /\ Get(c.id, idx) # Zero128}, size)
               IN [k \in 1 .. Len(dying) |->
                     [id |-> Get(c.id, dying[k]),
                      idx |-> dying[k],
                      next_stage |-> Get(c.next_stage, dying[k]),
                      add_data |-> Get(c.next_stage_add_data, dying[k]),
                      required |-> c.required_columns,
                      held |-> Held(Get(c.next_stage, dying[k]), c, dying[k]),
                      emitted |-> IF dying[k] \in newly THEN emit(dying[k])
                                  ELSE <<>>]]]

\* The outcome of an act that marks no slot dead.
Acted(panic, c) == [panic |-> panic, columns |-> c, deaths |-> <<>>]

\* Whether column `name` has the size.div_ceil(N) blocks an act slices.
Sliceable(c, name, size, n) == DivCeil(size, n) * n <= Len0(c.packed[name])

\* column `to` += column `from` over the rows of blocks 0 .. blocks - 1.
AddColumn(c, to, from, blocks, n) ==
    [c EXCEPT !.packed[to] =
        MapRows(@, 0 .. blocks * n - 1,
                LAMBDA r, old : old + Get(c.packed[from], r))]

\* motion1::act: old_pos_z = pos_z over the sliced blocks, then
\* `for i in 0..size { pos_z[i] += motion_z[i] }` with i a block index, which
\* panics at the first i >= size.div_ceil(N).
motion1_act(c, size, n) ==
    IF \/ ~Sliceable(c, "motion_z", size, n)
       \/ ~Sliceable(c, "pos_z", size, n)
       \/ ~Sliceable(c, "old_pos_z", size, n)
       \/ size > DivCeil(size, n)
    THEN Acted(TRUE, c)
    ELSE Acted(FALSE,
               AddColumn([c EXCEPT !.packed["old_pos_z"] =
                             MapRows(@, 0 .. DivCeil(size, n) * n - 1,
                                     LAMBDA r, old : Get(c.packed["pos_z"], r))],
                         "pos_z", "motion_z", size, n))

\* gravity1::act: `for i in 0..size { mot[i] += gravity[i] * ticks_existed[i] }`
\* with i a block index; ticks_existed is what the previous tick left.
gravity1_act(c, size, n) ==
    IF \/ DivCeil(size, n) * n > Len0(c.ticks_existed)
       \/ ~Sliceable(c, "motion_y", size, n)
       \/ ~Sliceable(c, "gravity_y", size, n)
       \/ size > DivCeil(size, n)
    THEN Acted(TRUE, c)
    ELSE Acted(FALSE,
               [c EXCEPT !.packed["motion_y"] =
                   MapRows(@, 0 .. size * n - 1,
                           LAMBDA r, old : old + Get(c.packed["gravity_y"], r)
                                                 * Get(c.ticks_existed, r))])

\* acceleration1::act: motion_z += speed_accel over the sliced blocks.
acceleration1_act(c, size, n) ==
    IF \/ ~Sliceable(c, "speed_accel", size, n)
       \/ ~Sliceable(c, "motion_z", size, n)
    THEN Acted(TRUE, c)
    ELSE Acted(FALSE, AddColumn(c, "motion_z", "speed_accel", DivCeil(size, n), n))

\* motion3::act: `old_pos_x[0..size].copy_from_slice(&pos_x[0..size.div_ceil(N)])`
\* panics unless size = size.div_ceil(N); then pos += motion per axis.
motion3_act(c, size, n) ==
    IF \/ \E name \in {"motion_x", "motion_y", "motion_z", "pos_x", "pos_y",
                       "pos_z", "old_pos_x", "old_pos_y", "old_pos_z"} :
             ~Sliceable(c, name, size, n)
       \/ size # DivCeil(size, n)
    THEN Acted(TRUE, c)
    ELSE With([c EXCEPT !.packed =
                 [name \in PackedNames |->
                    CASE name = "old_pos_x" ->
                           MapRows(@[name], 0 .. size * n - 1,
                                   LAMBDA r, old : Get(c.packed["pos_x"], r))
                      [] name = "old_pos_y" ->
                           MapRows(@[name], 0 .. size * n - 1,
                                   LAMBDA r, old : Get(c.packed["pos_y"], r))
                      [] name = "old_pos_z" ->
                           MapRows(@[name], 0 .. size * n - 1,
                                   LAMBDA r, old : Get(c.packed["pos_z"], r))
                      [] OTHER -> @[name]]], LAMBDA c1 :
           Acted(FALSE,
                 AddColumn(AddColumn(AddColumn(c1, "pos_x", "motion_x", size, n),
                                     "pos_y", "motion_y", size, n),
                           "pos_z", "motion_z", size, n)))

\* rotate_orientation::act: slices orientation, old_orientation and rotation
\* over [0..size], then `for i in 0..size { old_orientation[0] =
\* orientation[i]; orientation[i] *= rotation[i]; }`.
rotate_orientation_act(c, size, n) ==
    IF \E name \in QuatNames : size > Len0(c.quats[name])
    THEN Acted(TRUE, c)
    ELSE Acted(FALSE,
               [c EXCEPT !.quats =
                  [name \in QuatNames |->
                     CASE name = "old_orientation" ->
                            IF size = 0 THEN @[name]
                            ELSE Put(@[name], 0, Get(c.quats["orientation"], size - 1))
                       [] name = "orientation" ->
                            MapRows(@[name], 0 .. size - 1,
                                    LAMBDA r, old :
                                       QMul(old, Get(c.quats["rotation"], r)))
                       [] OTHER -> @[name]]])

\* gravity3::act: slices ticks_existed and the motion and gravity columns of
\* all three axes over size.div_ceil(N) blocks, then per axis
\* motion += gravity * ticks_existed.
gravity3_act(c, size, n) ==
    IF \/ DivCeil(size, n) * n > Len0(c.ticks_existed)
       \/ \E name \in {"motion_x", "motion_y", "motion_z",
                        "gravity_x", "gravity_y", "gravity_z"} :
             ~Sliceable(c, name, size, n)
    THEN Acted(TRUE, c)
    ELSE Acted(FALSE,
               [c EXCEPT !.packed =
                  [name \in PackedNames |->
                     CASE name = "motion_x" ->
                            MapRows(@[name], 0 .. DivCeil(size, n) * n - 1,
                                    LAMBDA r, old :
                                       old + Get(c.packed["gravity_x"], r)
                                             * Get(c.ticks_existed, r))
                       [] name = "motion_y" ->
                            MapRows(@[name], 0 .. DivCeil(size, n) * n - 1,
                                    LAMBDA r, old :
                                       old + Get(c.packed["gravity_y"], r)
                                             * Get(c.ticks_existed, r))
                       [] name = "motion_z" ->
                            MapRows(@[name], 0 .. DivCeil(size, n) * n - 1,
                                    LAMBDA r, old :
                                       old + Get(c.packed["gravity_z"], r)
                                             * Get(c.ticks_existed, r))
                       [] OTHER -> @[name]]])

\* (behavior.act)(&mut columns, size) for a registered behavior.
BehaviorAct(identifier, c, size, n) ==
    CASE identifier = MANDATORY_END_BEHAVIOR_ID -> mandatory_end_act(c, size, n)
      [] identifier = "motion1" -> motion1_act(c, size, n)
      [] identifier = "gravity1" -> gravity1_act(c, size, n)
      [] identifier = "acceleration1" -> acceleration1_act(c, size, n)
      [] identifier = "motion3" -> motion3_act(c, size, n)
      [] identifier = "gravity3" -> gravity3_act(c, size, n)
      [] identifier = "rotate_orientation" -> rotate_orientation_act(c, size, n)
      [] OTHER -> Acted(FALSE, c)

RECURSIVE RunBehaviors(_, _, _, _, _)
RunBehaviors(sig, k, r, size, n) ==
    IF k > Len(sig) \/ r.panic THEN r
    ELSE With(BehaviorAct(sig[k], r.columns, size, n), LAMBDA a :
           RunBehaviors(sig, k + 1,
                [panic |-> a.panic, columns |-> a.columns,
                 deaths |-> r.deaths \o a.deaths], size, n))

\* DanmakuBehaviorHandler::tick: every behavior in order, then grab_new_spawns.
HandlerTick(h, n) ==
    With(RunBehaviors(h.behaviors, 1,
                [panic |-> FALSE, columns |-> h.columns, deaths |-> <<>>],
                h.current_size, n), LAMBDA r :
      [panic |-> r.panic,
       h |-> [h EXCEPT !.columns = [r.columns EXCEPT !.add_spawns = <<>>]],
       spawns |-> r.columns.add_spawns,
       deaths |-> r.deaths])

----------------------------------------------------------------------------
(* TopDanmakuBehaviorsHandler: the coordinator.  The operators below work on *)
(* a record st of the coordinator's fields and the history it accumulates.   *)

Coordinator ==
    [handlers |-> handlers,
     global_family_depth_map |-> global_family_depth_map,
     global_parent_map |-> global_parent_map,
     next_identifier |-> next_identifier,
     panicked |-> FALSE,
     log |-> <<>>,
     issued |-> issued,
     nInserted |-> nInserted]

MapPut(f, k, v) == [x \in (DOMAIN f) \cup {k} |-> IF x = k THEN v ELSE f[x]]

\* A hint taken over whichever bucket produced it.
PreferredAnywhere(preferred_idx, handler_identifier) ==
    IF preferred_idx # <<>> THEN <<preferred_idx[1][1]>> ELSE <<>>

\* preferred_idx.filter(|(_, original)| *original == handler.identifier)
\*              .map(|(idx, _)| idx)
PreferredHere(preferred_idx, handler_identifier) ==
    IF preferred_idx # <<>> /\ preferred_idx[1][2] = handler_identifier
    THEN <<preferred_idx[1][1]>> ELSE <<>>

\* A bucket key that forgets the order of the identifiers.
HandlerKeyUnordered(sig) == AnyOrder(Range(sig))

\* The key of `handlers` under which a descriptor's bucket is looked up and
\* inserted: the Vec of behavior identifiers itself.
HandlerKey(sig) == sig

\* add_single_danmaku.  preferred_idx is Option<(usize, i64)>.
add_single_danmaku(st, d, preferred_idx, reg, n) ==
    IF \E b \in Range(d.behaviors) : b \notin DOMAIN reg
    THEN [st |-> [st EXCEPT !.panicked = TRUE], children |-> <<>>]
    ELSE
    With(HandlerKey(d.behaviors) \in DOMAIN st.handlers, LAMBDA known :
    With(IF known THEN st.next_identifier ELSE st.next_identifier + 1,
         LAMBDA next_id :
    With(IF known THEN st.handlers[HandlerKey(d.behaviors)]
         ELSE HandlerNew(next_id, d.behaviors, FALSE, reg, n), LAMBDA handler :
    With(add_danmaku_with_preffered_index(
             handler, d, PreferredHere(preferred_idx, handler.identifier),
             st.global_family_depth_map, st.global_parent_map, n), LAMBDA a :
      [st |-> [st EXCEPT
                 !.handlers = MapPut(@, HandlerKey(d.behaviors), a.h),
                 !.next_identifier = next_id,
                 !.global_family_depth_map = a.depth_map,
                 !.global_parent_map = a.parent_map,
                 !.panicked = a.panic,
                 !.log = Append(@, [a.entry EXCEPT !.idx = preferred_idx]),
                 !.issued = @ \cup {a.entry.id},
                 !.nInserted = @ + 1],
       children |-> a.children]))))

\* add_danmaku.  The loop pops the back of `pending`, inserts the popped
\* descriptor and appends the children it returns, so a descriptor's children
\* (and theirs) are inserted before the descriptors in front of it.  It ends
\* at the first popped descriptor whose family depth does not resolve;
\* what is pending then is never inserted (`dropped`).
RECURSIVE add_pending(_, _, _, _)
add_popped(acc, d, reg, n) ==
    IF acc.st.panicked THEN acc
    ELSE IF acc.stopped THEN [acc EXCEPT !.dropped = <<d>> \o @]
    ELSE With(set_family_depth(d, acc.st.global_family_depth_map), LAMBDA r :
           IF ~r.ok THEN [acc EXCEPT !.stopped = TRUE, !.dropped = <<d>>]
           ELSE With(add_single_danmaku(acc.st, r.d, <<>>, reg, n), LAMBDA a :
                  add_pending([acc EXCEPT !.st = a.st], a.children, reg, n)))

add_pending(acc, pending, reg, n) ==
    FoldRange(LAMBDA x, k : add_popped(x, pending[Len(pending) + 1 - k], reg, n),
              acc, 1, Len(pending))

add_danmaku(st, danmaku, reg, n) ==
    add_pending([st |-> st, stopped |-> FALSE, dropped |-> <<>>], danmaku, reg, n)

\* A collection that keeps only what the latest bucket handed over.
CollectedLast(so_far, new) == IF new = <<>> THEN so_far ELSE new

\* with_idx.push / simple.push for the spawns of one bucket, in order.
Collected(so_far, new) == so_far \o new

\* tick, first loop: the buckets in iteration order `order`, collecting the
\* spawns with a preferred index (tagged with their bucket) and those without.
RECURSIVE TickHandlers(_, _, _, _)
TickHandlers(acc, order, k, n) ==
    IF k > Len(order) \/ acc.st.panicked THEN acc
    ELSE With(HandlerTick(acc.st.handlers[order[k]], n), LAMBDA t :
         With(acc.st.handlers[order[k]].identifier, LAMBDA hid :
         With(SelectSeq(t.spawns, LAMBDA s : s.idx # <<>>), LAMBDA withs :
         With(SelectSeq(t.spawns, LAMBDA s : s.idx = <<>>), LAMBDA simples :
           TickHandlers(
              [st |-> [acc.st EXCEPT !.handlers[order[k]] = t.h,
                                     !.panicked = t.panic],
               with_idx |-> Collected(acc.with_idx,
                   [j \in 1 .. Len(withs) |-> <<withs[j].d, withs[j].idx[1], hid>>]),
               simple |-> Collected(acc.simple,
                   [j \in 1 .. Len(simples) |-> simples[j].d]),
               deaths |-> acc.deaths \o t.deaths],
              order, k + 1, n)))))

\* tick, second loop: pop with_idx from the back and insert with the hint;
\* the children returned go to `simple`.
TickReuse(st, with_idx, simple, reg, n) ==
    FoldRange(LAMBDA acc, k :
                IF acc.st.panicked THEN acc
                ELSE With(with_idx[Len(with_idx) + 1 - k], LAMBDA w :
                     With(add_single_danmaku(acc.st, w[1], <<<<w[2], w[3]>>>>,
                                             reg, n), LAMBDA a :
                       [st |-> a.st, simple |-> acc.simple \o a.children])),
              [st |-> st, simple |-> simple], 1, Len(with_idx))

\* The buckets whose tick hands no spawn to the coordinator: the first loop
\* of tick only collects the spawns, so the place of these buckets in the
\* iteration changes nothing.
TickQuiet(hs, n) == {sig \in DOMAIN hs : HandlerTick(hs[sig], n).spawns = <<>>}

tick(st, order, reg, n) ==
    With(TickHandlers([st |-> st, with_idx |-> <<>>, simple |-> <<>>,
                       deaths |-> <<>>], order, 1, n), LAMBDA t :
    With(TickReuse(t.st, t.with_idx, t.simple, reg, n), LAMBDA u :
    With(add_danmaku(u.st, u.simple, reg, n), LAMBDA a :
      [st |-> a.st, deaths |-> t.deaths, dropped |-> a.dropped])))

\* A cleanup that also takes the dead slots off the size of the buckets it
\* keeps.
cleanupShrinking(hs) ==
    LET keep == {sig \in DOMAIN hs : hs[sig].always_keep \/ count(hs[sig]) > 0}
    IN [sig \in keep |->
          IF CountUnderflows(hs[sig]) THEN hs[sig]
          ELSE [hs[sig] EXCEPT !.current_size = @ - dead(hs[sig])]]

\* cleanup: retain the buckets with always_keep or count() > 0.
cleanup(hs) ==
    LET keep == {sig \in DOMAIN hs : hs[sig].always_keep \/ count(hs[sig]) > 0}
    IN [sig \in keep |-> hs[sig]]

----------------------------------------------------------------------------
(* Render data *)

\* The matrices compute_transform_mats builds are T(p) * S(s) (scaling, then
\* translation; the orientation factor is the identity here): the affine
\* map x |-> s*x + p per axis, kept as [s, p].
Mul(a, b) ==
    [s |-> [k \in 1 .. 3 |-> a.s[k] * b.s[k]],
     p |-> [k \in 1 .. 3 |-> a.s[k] * b.p[k] + a.p[k]]]

\* nalgebra_glm::lerp_scalar(x, y, a) = x * (1 - a) + y * a, for a in {0, 1}.
lerp_scalar(x, y, a) == x * (1 - a) + y * a

\* lerp_if_used; `used` columns are read at [i.div_ceil(N)][i % N].
lerp_if_used(partial_ticks, used, i, old, new, n) ==
    IF used THEN lerp_scalar(Get(old, WriteRow(i, n)), Get(new, WriteRow(i, n)),
                              partial_ticks)
    ELSE 0

LerpPanics(used, i, old, new, n) ==
    used /\ (~Has(old, WriteRow(i, n)) \/ ~Has(new, WriteRow(i, n)))

PosKind == <<"PosX", "PosY", "PosZ">>
ScaleKind == <<"ScaleX", "ScaleY", "ScaleZ">>
PosCol == <<"pos_x", "pos_y", "pos_z">>
OldPosCol == <<"old_pos_x", "old_pos_y", "old_pos_z">>
ScaleCol == <<"scale_x", "scale_y", "scale_z">>
OldScaleCol == <<"old_scale_x", "old_scale_y", "old_scale_z">>

LiveSlots(c, current_size) == {i \in 0 .. current_size - 1 : ~Get(c.dead, i)}

compute_transform_mats(c, current_size, partial_ticks, n) ==
    IF "Appearance" \notin c.required_columns THEN [panic |-> FALSE, columns |-> c]
    ELSE
    LET req == c.required_columns
        any_pos == \E k \in 1 .. 3 : PosKind[k] \in req
        mat(i) ==
          [s |-> [k \in 1 .. 3 |->
                    lerp_if_used(partial_ticks, ScaleKind[k] \in req, i,
                                 c.packed[OldScaleCol[k]], c.packed[ScaleCol[k]], n)],
           p |-> [k \in 1 .. 3 |->
                    IF any_pos
                    THEN lerp_if_used(partial_ticks, PosKind[k] \in req, i,
                                      c.packed[OldPosCol[k]], c.packed[PosCol[k]], n)
                    ELSE 0]]
        panics == \E i \in LiveSlots(c, current_size) : \E k \in 1 .. 3 :
                    \/ LerpPanics(ScaleKind[k] \in req, i,
                                  c.packed[OldScaleCol[k]], c.packed[ScaleCol[k]], n)
                    \/ LerpPanics(PosKind[k] \in req, i,
                                  c.packed[OldPosCol[k]], c.packed[PosCol[k]], n)
    IN IF current_size > Len0(c.dead) \/ panics THEN [panic |-> TRUE, columns |-> c]
       ELSE [panic |-> FALSE,
             columns |-> [c EXCEPT !.transform_mats =
                            MapRows(@, LiveSlots(c, current_size),
                                    LAMBDA i, old : mat(i))]]

\* `i & N` for a lane width that is a power of two.
BitAndN(i, n) == IF (i \div n) % 2 = 1 THEN n ELSE 0

\* The RenderData of slot i reads ticks_existed and end_time at
\* [i.div_ceil(N)][i & N]; lane N does not exist.
RenderReadPanics(c, i, n) ==
    \/ BitAndN(i, n) >= n
    \/ ~Has(c.ticks_existed, DivCeil(i, n) * n)

\* compute_and_get_render_data: the (id, model_mat) pairs in slot order.
compute_and_get_render_data(c0, current_size, partial_ticks, n) ==
    With(compute_transform_mats(c0, current_size, partial_ticks, n), LAMBDA t :
    With(t.columns, LAMBDA c :
    With(SetToSortedSeq(LiveSlots(c, current_size), current_size), LAMBDA live :
      IF t.panic THEN [panic |-> TRUE, columns |-> c, pairs |-> <<>>]
      ELSE IF "Appearance" \notin c.required_columns
      THEN [panic |-> FALSE, columns |-> c, pairs |-> <<>>]
      ELSE [panic |-> \E k \in DOMAIN live : RenderReadPanics(c, live[k], n),
            columns |-> c,
            pairs |-> [k \in DOMAIN live |->
                         [id |-> Get(c.id, live[k]),
                          model_mat |-> Get(c.transform_mats, live[k])]]])))

\* The orders in which PriorityQueue::pop can return the relationships:
\* greatest priority first, equal priorities in any order.
RECURSIVE PopOrders(_, _)
PopOrders(rels, depth_map) ==
    IF rels = {} THEN {<<>>}
    ELSE LET prio(r) == IF r[1] \in DOMAIN depth_map THEN depth_map[r[1]] ELSE 0
             top == {r \in rels : \A q \in rels : prio(q) <= prio(r)}
         IN UNION {{<<r>> \o o : o \in PopOrders(rels \ {r}, depth_map)} : r \in top}

\* The while-let loop of render_data over the popped relationships.
RECURSIVE Compose(_, _, _)
Compose(local, order, k) ==
    IF k > Len(order) THEN local
    ELSE LET child_id == order[k][1]
             parent_id == order[k][2]
         IN IF child_id \notin DOMAIN local THEN Compose(local, order, k + 1)
            ELSE IF parent_id \in DOMAIN local
            THEN Compose([local EXCEPT ![child_id] = Mul(local[parent_id], @)],
                         order, k + 1)
            ELSE Compose([x \in (DOMAIN local) \ {child_id} |-> local[x]],
                         order, k + 1)

\* local_render_data: the pairs of every bucket, in the buckets' iteration
\* order; a later pair replaces an earlier one with the same ID.
RECURSIVE Collect(_, _, _, _, _)
Collect(acc, hs, border, partial_ticks, n) ==
    IF border = <<>> \/ acc.panic THEN acc
    ELSE With(hs[Head(border)], LAMBDA h :
         With(compute_and_get_render_data(h.columns, h.current_size,
                                          partial_ticks, n), LAMBDA r :
         With({r.pairs[k].id : k \in DOMAIN r.pairs}, LAMBDA ids :
           Collect([panic |-> r.panic,
                    handlers |-> [acc.handlers EXCEPT
                                    ![Head(border)].columns = r.columns],
                    local |-> [x \in (DOMAIN acc.local) \cup ids |->
                                 IF x \in ids
                                 THEN r.pairs[CHOOSE k \in DOMAIN r.pairs :
                                        /\ r.pairs[k].id = x
                                        /\ \A m \in DOMAIN r.pairs :
                                              r.pairs[m].id = x => m <= k].model_mat
                                 ELSE acc.local[x]]],
                   hs, Tail(border), partial_ticks, n))))

render_data(hs, border, pop_order, partial_ticks, n) ==
    With(Collect([panic |-> FALSE, handlers |-> hs, local |-> <<>>],
                 hs, border, partial_ticks, n), LAMBDA c :
      [panic |-> c.panic,
       handlers |-> c.handlers,
       result |-> Compose(c.local, pop_order, 1)])

\* The buckets that contribute no pair to local_render_data.
RenderQuiet(hs, partial_ticks, n) ==
    {sig \in DOMAIN hs :
        compute_and_get_render_data(hs[sig].columns, hs[sig].current_size,
                                    partial_ticks, n).pairs = <<>>}

Relationships(parent_map) == {<<x, parent_map[x]>> : x \in DOMAIN parent_map}

----------------------------------------------------------------------------
(* The descriptors an embedder passes to add_danmaku *)

SigE == <<MANDATORY_END_BEHAVIOR_ID>>
SigTE == <<"tag", MANDATORY_END_BEHAVIOR_ID>>
SigA == <<"appearance">>
SigAT == <<"appearance", "tag">>
SigTA == <<"tag", "appearance">>
SigAE == <<"appearance", MANDATORY_END_BEHAVIOR_ID>>
SigM1 == <<"motion1", MANDATORY_END_BEHAVIOR_ID>>
SigGA == <<"gravity1", "acceleration1", MANDATORY_END_BEHAVIOR_ID>>
SigM3 == <<"motion3", MANDATORY_END_BEHAVIOR_ID>>
SigG3 == <<"gravity3", MANDATORY_END_BEHAVIOR_ID>>
SigRO == <<"rotate_orientation">>

Leaf(end_time, sig) == Descriptor(end_time, <<>>, sig, {}, <<>>, <<>>, <<>>, -1)

Stage(end_time, sig, next_stage) ==
    Descriptor(end_time, <<>>, sig, {}, next_stage, <<>>, <<>>, -1)

Body(pos_x, size_x, end_time, sig, parent, children) ==
    Descriptor(end_time,
               <<[kind |-> "PosX", v |-> pos_x], [kind |-> "SizeX", v |-> size_x]>>,
               sig, {}, <<>>, parent, children, -1)

\* An ID no bucket hands out within the bounds.
UnknownId == <<9, 9>>
\* The ID of the first projectile of the first bucket.
FirstId == <<1, 0>>

\* S3: A with end_time 1 and a single successor B of the same signature; B
\* itself has a single successor.
S3A == Stage(1, SigE, <<Stage(0, SigE, <<Leaf(2, SigE)>>)>>)

\* S4: a fan-out of two successors, one of the same signature.
S4A == Stage(0, SigE, <<Leaf(2, SigE), Leaf(2, SigTE)>>)

\* S5, one level deeper: root -> c -> g, one bucket each.
Chain == Body(1, 1, 0, SigA, <<>>,
              <<Body(2, 2, 0, SigAT, <<>>, <<Body(4, 1, 0, SigTA, <<>>, <<>>)>>)>>)

\* A parent that dies after one tick with a child that does not die.
Orphaned == Body(1, 1, 0, SigAE, <<>>, <<Body(2, 1, 0, SigA, <<>>, <<>>)>>)

\* A descriptor naming its parent by ID, with one child of its own.
Adopted(parent_id) ==
    Body(2, 1, 0, SigAT, <<parent_id>>, <<Body(4, 1, 0, SigTA, <<>>, <<>>)>>)

\* S5 with catalog behaviors only: a parent P with a single child K.
S5P == Body(1, 1, 2, SigE, <<>>, <<Body(2, 1, 2, SigE, <<>>, <<>>)>>)

\* A short-lived projectile with one successor that lives one tick longer.
Short == Stage(0, SigE, <<Leaf(1, SigE)>>)

\* S1: one projectile moving along z (values in tenths).
S1 ==
    Descriptor(3, <<[kind |-> "PosZ", v |-> 0], [kind |-> "MotionZ", v |-> 1]>>,
               SigM1, {}, <<>>, <<>>, <<>>, -1)

\* S2: gravity along y and acceleration along z (values in hundredths).
S2 ==
    Descriptor(5, <<[kind |-> "MotionY", v |-> 0], [kind |-> "GravityY", v |-> -1],
                    [kind |-> "MotionZ", v |-> 100], [kind |-> "SpeedAccel", v |-> 10]>>,
               SigGA, {}, <<>>, <<>>, <<>>, -1)

\* A projectile of a motion3 bucket that moves along y only.
AlongY ==
    Descriptor(3, <<[kind |-> "PosY", v |-> 1], [kind |-> "MotionY", v |-> 2]>>,
               SigM3, {}, <<>>, <<>>, <<>>, -1)

\* Short in a bucket of its own signature.
ShortTagged == Stage(0, SigTE, <<Leaf(1, SigTE)>>)

\* A projectile at x = 3 of scale 2 that dies on its first tick and hands its
\* position on: PosX is in the additive mask and the successor has an x of 1
\* and no scale of its own.
Carrying ==
    Descriptor(0, <<[kind |-> "PosX", v |-> 3], [kind |-> "SizeX", v |-> 2]>>,
               SigAE, {"PosX"},
               <<Descriptor(2, <<[kind |-> "PosX", v |-> 1]>>, SigAE, {}, <<>>,
                            <<>>, <<>>, -1)>>,
               <<>>, <<>>, -1)

AddInputs ==
    [s3 |-> <<S3A>>,
     s4 |-> <<S4A>>,
     chain |-> <<Chain>>,
     cross |-> <<Leaf(0, SigTE), Stage(1, SigE, <<Leaf(2, SigTE)>>)>>,
     adopt |-> <<Adopted(FirstId)>>,
     lost_last |-> <<Leaf(2, SigE), Adopted(UnknownId)>>,
     one |-> <<Short>>,
     gone |-> <<Leaf(0, SigE)>>,
     four |-> [k \in 1 .. 4 |-> Short],
     s5 |-> <<S5P>>,
     bulk |-> [k \in 1 .. MaxBulk |-> Short],
     s1 |-> <<S1>>,
     s2 |-> <<S2>>,
     m3 |-> <<AlongY>>,
     \* eight of one bucket; the fourth of the list outlives the others
     mixed |-> [k \in 1 .. 8 |->
                  Body(k, 1, IF k = 4 THEN 5 ELSE 0, SigAE, <<>>, <<>>)],
     \* four each for two buckets, all dying on their first tick
     pair |-> [k \in 1 .. 8 |-> IF k <= 4 THEN Short ELSE ShortTagged],
     bulk_a |-> [k \in 1 .. MaxBulk |-> Body(k, 1, 5, SigA, <<>>, <<>>)],
     one_a |-> <<Body(0, 1, 5, SigA, <<>>, <<>>)>>,
     carry |-> <<Carrying>>,
     \* four projectiles with the largest end_time, and four with end_time 2
     forever |-> [k \in 1 .. 4 |-> Leaf(I16Max, SigE)],
     brief |-> [k \in 1 .. 4 |-> Leaf(2, SigE)],
     \* enough short-lived projectiles to grow their bucket once, the last
     \* of the list with a successor that outlives them
     crowd |-> [k \in 1 .. MaxBulk + 3 |->
                  IF k <= MaxBulk + 2 THEN Leaf(0, SigE)
                  ELSE Stage(0, SigE, <<Leaf(2, SigE)>>)],
     \* one projectile of a gravity3 bucket, its motion and gravity at 0
     g3 |-> <<Leaf(3, SigG3)>>,
     \* two projectiles of one bucket, each turning about another axis
     spin |-> <<Descriptor(5, <<[kind |-> "Orientation", v |-> <<"x">>],
                                [kind |-> "Rotation", v |-> <<"y">>]>>,
                           SigRO, {}, <<>>, <<>>, <<>>, -1),
                Descriptor(5, <<[kind |-> "Orientation", v |-> <<"y">>],
                                [kind |-> "Rotation", v |-> <<"x">>]>>,
                           SigRO, {}, <<>>, <<>>, <<>>, -1)>>]

\* The lists the growth specification adds: one that nearly fills a bucket of
\* the initial capacity, and a single descriptor.
GrowthInputs == {"bulk", "one"}

\* The same for a bucket whose projectiles carry position and scale.
AppearanceGrowthInputs == {"bulk_a", "one_a"}

\* The lists the column specification adds.
ColumnInputs == {"s1", "s2", "m3", "mixed", "g3", "spin"}

\* The lists whose projectiles spawn successors from more than one bucket.
SpawningInputs == {"pair", "s4", "cross", "carry"}

\* The lists that take a bucket past its initial capacity and empty it.
ShrinkInputs == {"crowd", "one"}

\* The lists whose projectiles are left to age.
AgingInputs == {"forever", "brief"}

PartialTicks == {0, 1}

----------------------------------------------------------------------------
(* The state machine *)

NoHandlers == [sig \in {} |-> 0]
NoMap == [x \in {} |-> 0]

\* The behaviors registered before the first operation.
Registered ==
    <<MandatoryEndBehavior, AppearanceBehavior, TagBehavior, Motion1Behavior,
      Gravity1Behavior, Acceleration1Behavior, Motion3Behavior,
      Gravity3Behavior, RotateOrientationBehavior>>

Init ==
    /\ N \in LaneWidths
    /\ behaviors = FoldRange(LAMBDA reg, k : RegisterBehavior(reg, Registered[k]),
                             NoMap, 1, Len(Registered))
    /\ handlers = NoHandlers
    /\ global_family_depth_map = NoMap
    /\ global_parent_map = NoMap
    /\ next_identifier = 0
    /\ panicked = FALSE
    /\ lastOp = "new"
    /\ log = <<>>
    /\ deaths = <<>>
    /\ dropped = <<>>
    /\ issued = {}
    /\ nInserted = 0
    /\ rendered = NoMap
    /\ preCleanup = NoHandlers
    /\ preCompact = <<>>
    /\ trace = <<>>
    /\ aborted = ""
    /\ born = NoMap

NumAdds == Cardinality({k \in DOMAIN trace : trace[k] \in DOMAIN AddInputs})

CanStep == ~panicked /\ Len(trace) < MaxOps

\* The operation `name` panicked: nothing of the coordinator is observed
\* afterwards.
Panic(name) ==
    /\ panicked' = TRUE
    /\ aborted' = name
    /\ UNCHANGED <<N, behaviors, handlers, global_family_depth_map,
                   global_parent_map, next_identifier, lastOp, log, deaths,
                   dropped, issued, nInserted, rendered, preCleanup,
                   preCompact, trace, born>>

\* history: the projectiles of `entries` are born, and a tick ages the others.
Born(entries, op) ==
    LET new == {entries[k].id : k \in DOMAIN entries}
        entry(id) == entries[CHOOSE k \in DOMAIN entries : entries[k].id = id]
    IN [id \in (DOMAIN born) \cup new |->
          IF id \in new
          THEN [end_time |-> entry(id).descriptor.end_time,
                behaviors |-> entry(id).descriptor.behaviors,
                age |-> 0]
          ELSE [born[id] EXCEPT !.age = IF op = "tick" THEN @ + 1 ELSE @]]

Commit(st, op, name) ==
    /\ handlers' = st.handlers
    /\ global_family_depth_map' = st.global_family_depth_map
    /\ global_parent_map' = st.global_parent_map
    /\ next_identifier' = st.next_identifier
    /\ log' = st.log
    /\ issued' = st.issued
    /\ nInserted' = st.nInserted
    /\ lastOp' = op
    /\ trace' = Append(trace, name)
    /\ born' = Born(st.log, op)
    /\ preCompact' = <<>>
    /\ UNCHANGED <<N, behaviors, panicked, aborted>>

\* TopDanmakuBehaviorsHandler::add_danmaku(danmaku), danmaku one of `names`
AddInput(names) ==
    /\ CanStep
    /\ NumAdds < MaxAdds
    /\ \E name \in names :
         With(add_danmaku(Coordinator, AddInputs[name], behaviors, N), LAMBDA r :
           IF r.st.panicked THEN Panic(name)
           ELSE /\ Commit(r.st, "add", name)
                /\ dropped' = r.dropped
                /\ deaths' = <<>>
                /\ rendered' = NoMap
                /\ preCleanup' = NoHandlers)

\* TopDanmakuBehaviorsHandler::tick()
Tick ==
    /\ CanStep
    /\ \E order \in IterationOrders(DOMAIN handlers, TickQuiet(handlers, N)) :
         With(tick(Coordinator, order, behaviors, N), LAMBDA r :
           IF r.st.panicked THEN Panic("tick")
           ELSE /\ Commit(r.st, "tick", "tick")
                /\ dropped' = r.dropped
                /\ deaths' = r.deaths
                /\ rendered' = NoMap
                /\ preCleanup' = NoHandlers)

\* TopDanmakuBehaviorsHandler::render_data(partial_ticks)
RenderData ==
    /\ CanStep
    /\ \E partial_ticks \in PartialTicks :
       \E border \in IterationOrders(DOMAIN handlers,
                                     RenderQuiet(handlers, partial_ticks, N)) :
       \E pop_order \in PopOrders(Relationships(global_parent_map),
                                  global_family_depth_map) :
         With(render_data(handlers, border, pop_order, partial_ticks, N), LAMBDA r :
           IF r.panic THEN Panic("render_data")
           ELSE /\ Commit([Coordinator EXCEPT !.handlers = r.handlers],
                          "render_data", "render_data")
                /\ rendered' = r.result
                /\ dropped' = <<>>
                /\ deaths' = <<>>
                /\ preCleanup' = NoHandlers)

\* TopDanmakuBehaviorsHandler::cleanup().  count() going below zero panics in
\* a build with overflow checks and wraps in a build without.
Cleanup ==
    /\ CanStep
    /\ \E overflow_checks \in BOOLEAN :
         IF overflow_checks /\ \E sig \in DOMAIN handlers : CountUnderflows(handlers[sig])
         THEN Panic("cleanup")
         ELSE /\ Commit([Coordinator EXCEPT !.handlers = cleanup(handlers)],
                        "cleanup", "cleanup")
              /\ preCleanup' = handlers
              /\ rendered' = NoMap
              /\ dropped' = <<>>
              /\ deaths' = <<>>

\* StandardColumns::compact(new_max_size) on the store of one bucket with the
\* bookkeeping of the step-down of DanmakuBehaviorHandler::resize around it
\* (size_exp, current_size -= dead).  new_max_size is the halved capacity
\* that resize passes, or the present capacity.  (current_size never is below
\* dead when the store is compacted; the subtraction would underflow.)
Compact ==
    /\ CanStep
    /\ \E sig \in DOMAIN handlers : \E down \in {0, 1} :
         With(handlers[sig], LAMBDA h :
         With(ColumnsCompact(h.columns, Pow2(h.size_exp - down), N), LAMBDA c :
           IF c.panic \/ CountUnderflows(h) THEN Panic("compact")
           ELSE /\ handlers' = [handlers EXCEPT ![sig] =
                                   [h EXCEPT !.size_exp = @ - down,
                                             !.columns = c.columns,
                                             !.current_size = @ - dead(h)]]
                /\ preCompact' = <<[sig |-> sig, h |-> h]>>
                /\ lastOp' = "compact"
                /\ trace' = Append(trace, "compact")
                /\ log' = <<>>
                /\ deaths' = <<>>
                /\ dropped' = <<>>
                /\ rendered' = NoMap
                /\ preCleanup' = NoHandlers
                /\ UNCHANGED <<N, behaviors, global_family_depth_map,
                               global_parent_map, next_identifier, panicked,
                               issued, nInserted, aborted, born>>))

\* DanmakuBehaviorHandler::resize(false) on one bucket: the call that lets a
\* bucket step down.  Where the surplus or current_size - dead underflows, a
\* build with overflow checks panics; without them the wrapped surplus passes
\* the test of should_resize_down_soon.  (current_size never is below dead
\* when the step-down is taken.)
Resize ==
    /\ CanStep
    /\ \E sig \in DOMAIN handlers : \E overflow_checks \in BOOLEAN :
         With(handlers[sig], LAMBDA h :
         With(~should_resize_up_soon(h) /\ SurplusUnderflows(h), LAMBDA wraps :
         With(IF wraps THEN step_down(h, N) ELSE resize(h, FALSE, N), LAMBDA r :
           IF \/ wraps /\ overflow_checks
              \/ r.panic
              \/ r.h.size_exp < h.size_exp /\ CountUnderflows(h)
           THEN Panic("resize")
           ELSE /\ handlers' = [handlers EXCEPT ![sig] = r.h]
                /\ preCompact' = IF r.h.size_exp < h.size_exp
                                 THEN <<[sig |-> sig, h |-> h]>> ELSE <<>>
                /\ lastOp' = "resize"
                /\ trace' = Append(trace, "resize")
                /\ log' = <<>>
                /\ deaths' = <<>>
                /\ dropped' = <<>>
                /\ rendered' = NoMap
                /\ preCleanup' = NoHandlers
                /\ UNCHANGED <<N, behaviors, global_family_depth_map,
                               global_parent_map, next_identifier, panicked,
                               issued, nInserted, aborted, born>>)))

AddDanmaku ==
    AddInput((DOMAIN AddInputs)
                \ ({"bulk", "pair", "carry", "crowd"} \cup AgingInputs
                      \cup AppearanceGrowthInputs \cup ColumnInputs))

AddBulk == AddInput(GrowthInputs)

AddAppearanceBulk == AddInput(AppearanceGrowthInputs)

AddColumns == AddInput(ColumnInputs)

AddSpawning == AddInput(SpawningInputs)

AddCrowd == AddInput(ShrinkInputs)

\* One list into the empty coordinator.
AddAging == handlers = NoHandlers /\ AddInput(AgingInputs)

\* TopDanmakuBehaviorsHandler::tick() any number of times: the tick is not
\* counted as an operation and the history does not record it.
Age ==
    /\ ~panicked
    /\ handlers # NoHandlers
    /\ \E order \in IterationOrders(DOMAIN handlers, TickQuiet(handlers, N)) :
         With(tick(Coordinator, order, behaviors, N), LAMBDA r :
           IF r.st.panicked THEN Panic("tick")
           ELSE /\ handlers' = r.st.handlers
                /\ global_family_depth_map' = r.st.global_family_depth_map
                /\ global_parent_map' = r.st.global_parent_map
                /\ next_identifier' = r.st.next_identifier
                /\ issued' = r.st.issued
                /\ nInserted' = r.st.nInserted
                /\ lastOp' = "tick"
                /\ log' = <<>>
                /\ deaths' = <<>>
                /\ dropped' = <<>>
                /\ rendered' = NoMap
                /\ preCleanup' = NoHandlers
                /\ preCompact' = <<>>
                /\ UNCHANGED <<N, behaviors, panicked, aborted, trace, born>>)

Next == AddDanmaku \/ Tick \/ RenderData \/ Cleanup

Spec == Init /\ [][Next]_vars

\* The same coordinator fed with lists long enough to fill a bucket.
NextGrowth == AddBulk \/ Tick \/ RenderData \/ Cleanup

SpecGrowth == Init /\ [][NextGrowth]_vars

\* The same for a bucket with attribute columns.
NextAppearanceGrowth == AddAppearanceBulk \/ Tick \/ RenderData \/ Cleanup

SpecAppearanceGrowth == Init /\ [][NextAppearanceGrowth]_vars

\* The coordinator fed with descriptors of the catalog behaviors, with the
\* stores of its buckets compacted in between.
NextColumns == AddColumns \/ Tick \/ RenderData \/ Cleanup \/ Compact

SpecColumns == Init /\ [][NextColumns]_vars

\* The coordinator fed with lists that make several buckets spawn at once.
NextSpawning == AddSpawning \/ Tick \/ RenderData \/ Cleanup

SpecSpawning == Init /\ [][NextSpawning]_vars

\* The coordinator with the unforced resize of a bucket as a further operation.
NextShrink == AddCrowd \/ Tick \/ RenderData \/ Cleanup \/ Resize

SpecShrink == Init /\ [][NextShrink]_vars

\* The coordinator ticked for ever after one add: an embedder calls tick
\* once per frame for as long as the program runs.
NextAging == AddAging \/ Age

SpecAging == Init /\ [][NextAging]_vars /\ WF_vars(Age)

----------------------------------------------------------------------------
(* Properties *)

Last(s) == s[Len(s)]

\* The slots of bucket h that hold an inserted projectile whose dead flag is
\* false.
LiveProjectiles(h) ==
    {i \in 0 .. h.columns.id.len - 1 :
        Get(h.columns.id, i) # Zero128 /\ ~Get(h.columns.dead, i)}

\* The slots of [0, current_size) of bucket h whose dead flag is false.
NotDeadSlots(h) == {i \in 0 .. h.current_size - 1 : ~Get(h.columns.dead, i)}

\* The local matrix stored for the projectile with the given ID.
LocalMat(id) ==
    LET sig == CHOOSE x \in DOMAIN handlers :
                  \E i \in DOMAIN handlers[x].columns.id.at :
                      handlers[x].columns.id.at[i] = id
        i == CHOOSE j \in DOMAIN handlers[sig].columns.id.at :
                  handlers[sig].columns.id.at[j] = id
    IN Get(handlers[sig].columns.transform_mats, i)

\* Whether set_family_depth resolves d against the current depth map.
Resolves(d) ==
    \/ d.family_depth # -1
    \/ d.parent = <<>>
    \/ d.parent[1] \in DOMAIN global_family_depth_map

\* C1: an insertion into the dead slot its preferred index names leaves the
\* bucket's current_size unchanged; in S3 (A, tick, tick) the successor B is
\* inserted with current_size 1 before and after.
C1_ReuseKeepsCurrentSize ==
    /\ \A k \in DOMAIN log :
          log[k].reused => log[k].size_after = log[k].size_before
    /\ trace = <<"s3", "tick", "tick">> =>
          \E k \in DOMAIN log :
              /\ log[k].reused
              /\ log[k].size_before = 1
              /\ log[k].size_after = 1

\* C2: in S3, after the second tick exactly one slot of [0, current_size) has
\* dead = false: the slot A occupied, holding an ID other than A's.
C2_S3OneLiveSlot ==
    trace = <<"s3", "tick", "tick">> =>
        /\ NotDeadSlots(handlers[SigE]) = {0}
        /\ Get(handlers[SigE].columns.id, 0) # FirstId

\* C3: every insertion, fresh append or reuse, in any bucket and across
\* cleanup dropping and add re-creating a bucket, is given an ID that no
\* earlier insertion was given: the IDs handed out are as many as the
\* insertions made.
C3_IdsNeverRecur == Cardinality(issued) = nInserted

\* A bucket was dropped by cleanup and re-created by a later add, and both
\* incarnations have inserted a projectile.
C3_Recreated ==
    /\ trace = <<"gone", "tick", "cleanup", "gone">>
    /\ nInserted = 2
    /\ issued = {<<1, 0>>, <<2, 0>>}

\* C4: whatever an add (or the add at the end of a tick) leaves uninserted
\* is a descriptor whose family depth does not resolve: the descriptors that
\* resolve are all inserted by the call.
C4_AddInsertsEveryResolvable ==
    \A k \in DOMAIN dropped : ~Resolves(dropped[k])

\* C5: for every projectile c recorded in parent_of with a parent p that is in
\* depth_of, depth_of[c] = depth_of[p] + 1.
C5_ChildDepthIsParentPlusOne ==
    \A c \in DOMAIN global_parent_map :
        LET p == global_parent_map[c]
        IN (c \in DOMAIN global_family_depth_map
            /\ p \in DOMAIN global_family_depth_map)
           => global_family_depth_map[c] = global_family_depth_map[p] + 1

\* C6: for a live chain root -> c -> g the matrix render_data returns for g
\* is local(root) * local(c) * local(g).
C6_GrandchildComposedWithAllAncestors ==
    lastOp = "render_data" =>
        \A g \in DOMAIN rendered :
            (/\ g \in DOMAIN global_parent_map
             /\ global_parent_map[g] \in DOMAIN rendered
             /\ global_parent_map[g] \in DOMAIN global_parent_map
             /\ global_parent_map[global_parent_map[g]] \in DOMAIN rendered
             /\ global_parent_map[global_parent_map[g]] \notin DOMAIN global_parent_map)
            => rendered[g] =
                 Mul(Mul(LocalMat(global_parent_map[global_parent_map[g]]),
                         LocalMat(global_parent_map[g])),
                     LocalMat(g))

\* C7: an inserted projectile that dies on a tick has every descriptor of its
\* next_stage list appended to the bucket's pending spawns on that tick,
\* whether it was placed by an append or into a reused slot.
C7_NextStageEmittedOnDeath ==
    \A k \in DOMAIN deaths :
        Len(deaths[k].emitted) = Len(deaths[k].next_stage)

\* C8: cleanup removes exactly the buckets with always_keep = false that hold
\* no live projectile.
C8_CleanupRemovesExactlyEmptyBuckets ==
    lastOp = "cleanup" =>
        \A sig \in DOMAIN preCleanup :
            (sig \notin DOMAIN handlers)
            <=> (~preCleanup[sig].always_keep
                 /\ LiveProjectiles(preCleanup[sig]) = {})

\* C9: an insertion goes into the slot its preferred index names only if the
\* descriptor's signature is the bucket's, the index was produced by that
\* bucket and the slot's dead flag is true; every other insertion goes to
\* index current_size.
C9_ReuseOnlySameBucketDeadSlot ==
    \A k \in DOMAIN log :
        LET e == log[k]
        IN /\ e.written
           /\ e.reused =>
                /\ e.idx # <<>>
                /\ e.i = e.idx[1][1]
                /\ e.idx[1][2] = e.bucket
                /\ e.descriptor.behaviors = e.bucket_behaviors
                /\ e.dead_at_i
           /\ ~e.reused => e.i = e.size_before

\* One tick has put a successor into the dead slot its bucket named and has
\* appended another successor whose index was named by a different bucket.
C9_BothCases ==
    /\ lastOp = "tick"
    /\ \E k \in DOMAIN log : log[k].reused
    /\ \E k \in DOMAIN log : log[k].idx # <<>> /\ ~log[k].reused

\* C10: an insertion that reuses the dead slot its preferred index names
\* leaves the bucket's size exponent unchanged.
C10_ReuseKeepsSizeExponent ==
    \A k \in DOMAIN log :
        log[k].reused => log[k].exp_after = log[k].exp_before

\* The number of slots below which an append leaves a tenth of the capacity
\* 2^k free.
GrowThreshold(k) == Pow2(k) - DivCeil(Pow2(k), 10)

\* C11: a fresh append (no reused slot) grows the bucket whenever
\* current_size + 1 > 2^k - ceil(0.1 * 2^k), so that after every append
\* current_size <= 2^k - ceil(0.1 * 2^k) for the bucket's k.
C11_AppendLeavesHeadroom ==
    \A k \in DOMAIN log :
        ~log[k].reused =>
            /\ log[k].size_before + 1 > GrowThreshold(log[k].exp_before)
                  => log[k].exp_after = log[k].exp_before + 1
            /\ log[k].size_after <= GrowThreshold(log[k].exp_after)

\* C12: no add_danmaku call aborts, however many descriptors it inserts
\* into one bucket and whatever the lane width: every index it writes is
\* inside the scalar and the lane-packed columns.
C12_InsertionNeverAborts == aborted \notin DOMAIN AddInputs

\* The capacity of bucket h: the length of its scalar columns.
Capacity(h) == h.columns.id.len

BucketShape ==
    \A sig \in DOMAIN handlers :
        /\ handlers[sig].size_exp >= 7
        /\ Capacity(handlers[sig]) = Pow2(handlers[sig].size_exp)
        /\ handlers[sig].current_size <= Capacity(handlers[sig])

\* No operation performs a compact (resize is only called with force_up), so
\* a bucket's current_size is never lower after a step than before it.
SizeNeverLower ==
    \A sig \in (DOMAIN handlers) \cap (DOMAIN handlers') :
        handlers'[sig].identifier = handlers[sig].identifier
            => handlers'[sig].current_size >= handlers[sig].current_size

\* C13: in every reachable state every bucket has capacity 2^k with k >= 7
\* and current_size <= capacity, and no operation lowers a bucket's
\* current_size.
C13_CapacityPowerOfTwoSizeMonotone == []BucketShape /\ [][SizeNeverLower]_vars

\* A bucket has grown past its initial capacity and is full to the old one.
C13_Grown ==
    \E sig \in DOMAIN handlers :
        /\ handlers[sig].size_exp = InitSizeExp + 1
        /\ handlers[sig].current_size >= Pow2(InitSizeExp)

\* The projectiles stored in bucket h, as <<slot, ID>>.
Stored(h) == {<<i, h.columns.id.at[i]>> : i \in DOMAIN h.columns.id.at}

\* C14: a projectile inserted with end_time e >= 0 into a bucket running
\* mandatory_end has dead = false after each of its first e ticks and
\* dead = true after every later tick, as long as it occupies its slot.
C14_DeadExactlyAfterEndTime ==
    \A sig \in DOMAIN handlers :
        MANDATORY_END_BEHAVIOR_ID \in Range(handlers[sig].behaviors) =>
            \A x \in Stored(handlers[sig]) :
                (x[2] \in DOMAIN born /\ born[x[2]].end_time >= 0) =>
                    (Get(handlers[sig].columns.dead, x[1])
                        <=> born[x[2]].age > born[x[2]].end_time)

\* Two descriptors that differ at most in their family depth.
SameDescriptor(a, b) ==
    [a EXCEPT !.family_depth = -1] = [b EXCEPT !.family_depth = -1]

\* C15: a dying projectile with two or more next_stage descriptors emits
\* each with no preferred index, and each is inserted during that tick at an
\* index other than the dying slot or in another bucket; with exactly one
\* descriptor it emits it with the dying slot as preferred index.
C15_FanOutFreshSingleHinted ==
    \A k \in DOMAIN deaths :
        LET x == deaths[k]
        IN /\ Len(x.next_stage) >= 2 =>
                /\ Len(x.emitted) = Len(x.next_stage)
                /\ \A m \in DOMAIN x.emitted :
                      /\ x.emitted[m].idx = <<>>
                      /\ \E j \in DOMAIN log :
                            /\ SameDescriptor(log[j].descriptor, x.emitted[m].d)
                            /\ log[j].written
                            /\ log[j].bucket = x.id[1] => log[j].i # x.idx
           /\ Len(x.next_stage) = 1 =>
                /\ Len(x.emitted) = 1
                /\ x.emitted[1].idx = <<x.idx>>

\* C16: the last behavior of every bucket's pipeline is mandatory_end.
C16_MandatoryEndLast ==
    \A sig \in DOMAIN handlers :
        /\ handlers[sig].behaviors # <<>>
        /\ Last(handlers[sig].behaviors) = MANDATORY_END_BEHAVIOR_ID

\* The behaviors of the reference catalog among the registered ones.
CatalogIds == {MANDATORY_END_BEHAVIOR_ID}

\* Whether the projectile with the given ID is stored with dead = false.
IsLive(id) ==
    \E sig \in DOMAIN handlers : \E x \in Stored(handlers[sig]) :
        x[2] = id /\ ~Get(handlers[sig].columns.dead, x[1])

RECURSIVE ParentChainLive(_)
ParentChainLive(id) ==
    /\ IsLive(id)
    /\ id \in DOMAIN global_parent_map => ParentChainLive(global_parent_map[id])

\* C17: render_data returns an entry for every live projectile with a live
\* parent chain that is stored in a bucket of catalog behaviors; after the
\* add of S5 (P with a single child K) it returns P's and K's entries.
C17_CatalogProjectilesRendered ==
    lastOp = "render_data" =>
        /\ \A sig \in DOMAIN handlers :
              Range(handlers[sig].behaviors) \subseteq CatalogIds =>
                 \A x \in Stored(handlers[sig]) :
                     ParentChainLive(x[2]) => x[2] \in DOMAIN rendered
        /\ trace = <<"s5", "render_data">> => DOMAIN rendered = {<<1, 0>>, <<1, 1>>}

\* The IDs for which the buckets hand a pair to render_data.
RenderedLocally ==
    UNION {{Get(handlers[sig].columns.id, i) :
               i \in LiveSlots(handlers[sig].columns, handlers[sig].current_size)} :
           sig \in {x \in DOMAIN handlers :
                       "Appearance" \in handlers[x].columns.required_columns}}

\* C18: of the entries the buckets produce, render_data returns one without
\* a parent with its local matrix, one whose parent is returned with the
\* parent's matrix times its local matrix, and drops one whose parent is not
\* returned.
C18_OrphansDroppedChildrenComposed ==
    lastOp = "render_data" =>
        \A x \in RenderedLocally :
            IF x \notin DOMAIN global_parent_map
            THEN x \in DOMAIN rendered /\ rendered[x] = LocalMat(x)
            ELSE IF global_parent_map[x] \in DOMAIN rendered
            THEN /\ x \in DOMAIN rendered
                 /\ rendered[x] = Mul(rendered[global_parent_map[x]], LocalMat(x))
            ELSE x \notin DOMAIN rendered

\* C19: two insertions of one operation go to the same bucket if and only if
\* their signatures are equal as sequences, no two buckets have the same
\* pipeline, and every projectile stored in a bucket was inserted with the
\* bucket's signature.
C19_RoutedByOrderedSignature ==
    /\ \A j, k \in DOMAIN log :
          (log[j].bucket = log[k].bucket)
          <=> (log[j].descriptor.behaviors = log[k].descriptor.behaviors)
    /\ \A s1, s2 \in DOMAIN handlers :
          handlers[s1].behaviors = handlers[s2].behaviors => s1 = s2
    /\ \A sig \in DOMAIN handlers : \A x \in Stored(handlers[sig]) :
          x[2] \in DOMAIN born => born[x[2]].behaviors = handlers[sig].behaviors

\* Two buckets whose signatures hold the same identifiers in opposite order
\* each store a projectile.
C19_BothOrders ==
    /\ {SigAT, SigTA} \subseteq DOMAIN handlers
    /\ Stored(handlers[SigAT]) # {}
    /\ Stored(handlers[SigTA]) # {}
    /\ handlers[SigAT].identifier # handlers[SigTA].identifier

\* The column kind of each lane-packed attribute column.
ColumnKind(name) ==
    CASE name \in {"pos_x", "old_pos_x"} -> "PosX"
      [] name \in {"pos_y", "old_pos_y"} -> "PosY"
      [] name \in {"pos_z", "old_pos_z"} -> "PosZ"
      [] name \in {"scale_x", "old_scale_x"} -> "ScaleX"
      [] name \in {"scale_y", "old_scale_y"} -> "ScaleY"
      [] name \in {"scale_z", "old_scale_z"} -> "ScaleZ"
      [] name \in {"main_color", "old_main_color"} -> "MainColor"
      [] name \in {"secondary_color", "old_secondary_color"} -> "SecondaryColor"
      [] name = "damage" -> "Damage"
      [] name = "motion_x" -> "MotionX"
      [] name = "motion_y" -> "MotionY"
      [] name = "motion_z" -> "MotionZ"
      [] name = "gravity_x" -> "GravityX"
      [] name = "gravity_y" -> "GravityY"
      [] name = "gravity_z" -> "GravityZ"
      [] name = "speed_accel" -> "SpeedAccel"
      [] name \in {"forward_x", "forward_y", "forward_z"} -> "Forward"

\* C20: in every bucket each attribute column is non-empty if and only if
\* its column kind is in the bucket's required set.
C20_ColumnAllocatedIffRequired ==
    \A sig \in DOMAIN handlers : \A name \in PackedNames :
        (Len0(handlers[sig].columns.packed[name]) > 0)
        <=> (ColumnKind(name) \in handlers[sig].columns.required_columns)

\* The columns of lane-packed layout that new() allocated for bucket h.
AllocatedPacked(h) ==
    {name \in PackedNames : PackedSpec(name).alloc \in h.columns.required_columns}

\* C21: in every bucket, new or grown, every allocated lane-packed column
\* (ticks_existed and end_time, the attribute columns, their old_* companions
\* and the gravity columns) holds ceil(capacity / W) blocks and every scalar
\* column holds capacity elements, capacity being 2^size_exp.
C21_ColumnLengthsFollowCapacity ==
    \A sig \in DOMAIN handlers :
        With(handlers[sig], LAMBDA h :
          /\ \A name \in AllocatedPacked(h) :
                Len0(h.columns.packed[name]) = SimdRows(Pow2(h.size_exp), N)
          /\ Len0(h.columns.ticks_existed) = SimdRows(Pow2(h.size_exp), N)
          /\ Len0(h.columns.end_time) = SimdRows(Pow2(h.size_exp), N)
          /\ \A len \in {Len0(h.columns.id), Len0(h.columns.dead),
                         Len0(h.columns.next_stage),
                         Len0(h.columns.next_stage_add_data),
                         Len0(h.columns.parent), Len0(h.columns.transform_mats),
                         Len0(h.columns.family_depth)} :
                len = Pow2(h.size_exp))

\* The bucket the last compaction took, before and after it.
Compacted == handlers[preCompact[1].sig]
Uncompacted == preCompact[1].h

\* C22: after a compaction every entry of the dead column is false,
\* current_dead is empty, and no slot of [0, current_size) is dead.
C22_CompactResetsDead ==
    lastOp = "compact" =>
        /\ \A r \in 0 .. Compacted.columns.dead.len - 1 :
              ~Get(Compacted.columns.dead, r)
        /\ Compacted.columns.current_dead = <<>>
        /\ NotDeadSlots(Compacted) = 0 .. Compacted.current_size - 1

\* The rows a compaction has to keep: those whose dead flag is false, in
\* ascending order.
KeptRows(c) ==
    SetToSortedSeq({r \in 0 .. c.dead.len - 1 : ~Get(c.dead, r)}, c.dead.len)

\* C23: a compaction moves the k-th row whose dead flag is false to row k of
\* every column, scalar and lane-packed alike (row r of a lane-packed column
\* being block r / W, lane r mod W), so the values of a surviving projectile
\* sit at one index together with its ID.
C23_CompactKeepsLiveRowsInOrder ==
    lastOp = "compact" =>
        With(Uncompacted.columns, LAMBDA c0 :
        With(Compacted.columns, LAMBDA c1 :
        With(KeptRows(c0), LAMBDA kept :
          \A k \in 1 .. Len(kept) :
             k <= c1.id.len =>
                /\ Get(c1.id, k - 1) = Get(c0.id, kept[k])
                /\ Get(c1.parent, k - 1) = Get(c0.parent, kept[k])
                /\ Get(c1.family_depth, k - 1) = Get(c0.family_depth, kept[k])
                /\ Get(c1.next_stage, k - 1) = Get(c0.next_stage, kept[k])
                /\ Get(c1.end_time, k - 1) = Get(c0.end_time, kept[k])
                /\ Get(c1.ticks_existed, k - 1) = Get(c0.ticks_existed, kept[k])
                /\ \A name \in PackedNames :
                      Len0(c0.packed[name]) > 0 =>
                          Get(c1.packed[name], k - 1)
                              = Get(c0.packed[name], kept[k]))))

Ticks(n) == [k \in 1 .. n |-> "tick"]

\* C24: S2, values in hundredths.  The add of the projectile (motion_y 0,
\* gravity_y -1, motion_z 100, speed_accel 10, pipeline gravity1,
\* acceleration1, mandatory_end) completes, and after n ticks its slot holds
\* motion_y = -(1 + 2 + ... + n) and motion_z = 100 + 10 n.
C24_S2GravityAndAcceleration ==
    /\ aborted # "s2"
    /\ \A n \in 1 .. MaxOps - 1 :
          trace = <<"s2">> \o Ticks(n) =>
              /\ Get(handlers[SigGA].columns.packed["motion_y"], 0)
                    = 0 - ((n * (n + 1)) \div 2)
              /\ Get(handlers[SigGA].columns.packed["motion_z"], 0) = 100 + 10 * n

\* C25: S1, values in tenths.  The add of the projectile (pos_z 0, motion_z 1,
\* pipeline motion1, mandatory_end) completes, and after tick t its slot holds
\* pos_z = t and old_pos_z = t - 1.
C25_S1MovesAlongZ ==
    /\ aborted # "s1"
    /\ \A t \in 1 .. MaxOps - 1 :
          trace = <<"s1">> \o Ticks(t) =>
              /\ Get(handlers[SigM1].columns.packed["pos_z"], 0) = t
              /\ Get(handlers[SigM1].columns.packed["old_pos_z"], 0) = t - 1

\* The descriptors of a tree: the descriptor and the trees of its children.
RECURSIVE Nodes(_)
Nodes(d) ==
    FoldRange(LAMBDA acc, k : acc + Nodes(d.children[k]), 1, 1, Len(d.children))

NodesOfList(danmaku) ==
    FoldRange(LAMBDA acc, k : acc + Nodes(danmaku[k]), 0, 1, Len(danmaku))

\* C26: add terminates on every finite list of finite trees, whether or not
\* every family depth resolves.  Each turn of its loop pops one descriptor and
\* either inserts it or ends the loop, so an add that returns has made at most
\* as many insertions, plus descriptors left uninserted, as the list has
\* descriptors in its trees.
C26_AddBoundedByDescriptors ==
    lastOp = "add" =>
        Len(log) + Len(dropped) <= NodesOfList(AddInputs[Last(trace)])

\* An add of nested children has returned, and after it an add that met a
\* descriptor whose family depth does not resolve.
C26_AddReturned ==
    /\ lastOp = "add"
    /\ dropped # <<>>
    /\ \E id \in DOMAIN born : id \in DOMAIN global_parent_map

\* What the first loop of tick collects from the present state when the
\* buckets are ticked in the given order.
CollectedBy(order) ==
    TickHandlers([st |-> Coordinator, with_idx |-> <<>>, simple |-> <<>>,
                  deaths |-> <<>>], order, 1, N)

SameCollection(a, b) ==
    /\ a.st.panicked = b.st.panicked
    /\ ~a.st.panicked =>
          /\ Range(a.with_idx) = Range(b.with_idx)
          /\ Len(a.with_idx) = Len(b.with_idx)
          /\ Range(a.simple) = Range(b.simple)
          /\ Len(a.simple) = Len(b.simple)

\* C27: from any state of the coordinator, whatever the order in which tick
\* visits the buckets, it collects the same (descriptor, preferred index,
\* originating bucket) triples and the same descriptors without a preferred
\* index (or panics in every order).
C27_CollectedTriplesOrderFree ==
    \A o1 \in Perms(DOMAIN handlers) :
        SameCollection(CollectedBy(o1),
                       CollectedBy(AnyOrder(DOMAIN handlers)))

\* Two buckets hand spawns with a preferred index to the same tick.
C27_TwoBucketsSpawn ==
    /\ ~panicked
    /\ Cardinality({sig \in DOMAIN handlers :
            \E k \in DOMAIN HandlerTick(handlers[sig], N).spawns :
                HandlerTick(handlers[sig], N).spawns[k].idx # <<>>}) >= 2

\* C28: a cleanup that directly follows a cleanup changes nothing of the
\* coordinator: the bucket map, the behavior registry, the parent and depth
\* maps and the bucket-id counter are after the second call what they were
\* after the first.
C28_SecondCleanupChangesNothing ==
    [][(lastOp = "cleanup" /\ lastOp' = "cleanup" /\ trace' # trace) =>
          /\ handlers' = handlers
          /\ behaviors' = behaviors
          /\ global_parent_map' = global_parent_map
          /\ global_family_depth_map' = global_family_depth_map
          /\ next_identifier' = next_identifier]_vars

\* Two cleanups in a row that keep a bucket holding dead slots.
C28_CleanupTwice ==
    /\ Len(trace) >= 3
    /\ trace[Len(trace)] = "cleanup"
    /\ trace[Len(trace) - 1] = "cleanup"
    /\ \E sig \in DOMAIN handlers : dead(handlers[sig]) > 0

\* C29: slot i of a lane-packed column is block floor(i / W), lane i mod W,
\* that is row i, for insertion and for the readers alike: right after an add,
\* every projectile it inserted has its end_time and a ticks_existed of 0 at
\* the row of its own slot, the row mandatory_end reads for that slot.
C29_SlotValuesAtOwnBlockAndLane ==
    lastOp = "add" =>
        \A sig \in DOMAIN handlers :
            \A x \in Stored(handlers[sig]) :
                (x[2] \in DOMAIN born /\ born[x[2]].age = 0) =>
                    /\ Has(handlers[sig].columns.end_time, x[1])
                    /\ Get(handlers[sig].columns.end_time, x[1])
                          = born[x[2]].end_time
                    /\ Get(handlers[sig].columns.ticks_existed, x[1]) = 0

\* The column kind that gates an attribute, and the columns the attribute
\* belongs to: its own column and the old_* companion where there is one.
KindOfAttribute(kind) ==
    CASE kind = "SizeX" -> "ScaleX"
      [] kind = "SizeY" -> "ScaleY"
      [] kind = "SizeZ" -> "ScaleZ"
      [] OTHER -> kind

OwnColumns(kind) ==
    CASE kind = "PosX" -> {"pos_x", "old_pos_x"}
      [] kind = "PosY" -> {"pos_y", "old_pos_y"}
      [] kind = "PosZ" -> {"pos_z", "old_pos_z"}
      [] kind = "MainColor" -> {"main_color", "old_main_color"}
      [] kind = "SecondaryColor" -> {"secondary_color", "old_secondary_color"}
      [] kind = "Damage" -> {"damage"}
      [] kind = "SizeX" -> {"scale_x", "old_scale_x"}
      [] kind = "SizeY" -> {"scale_y", "old_scale_y"}
      [] kind = "SizeZ" -> {"scale_z", "old_scale_z"}
      [] kind = "MotionX" -> {"motion_x"}
      [] kind = "MotionY" -> {"motion_y"}
      [] kind = "MotionZ" -> {"motion_z"}
      [] kind = "GravityX" -> {"gravity_x"}
      [] kind = "GravityY" -> {"gravity_y"}
      [] kind = "GravityZ" -> {"gravity_z"}
      [] kind = "SpeedAccel" -> {"speed_accel"}

\* C30: right after an add, the slot of every projectile it appended holds
\* each attribute of the descriptor whose column kind the bucket requires in
\* that attribute's own columns, and the initial value in every other
\* allocated attribute column.
C30_AttributesInOwnColumns ==
    lastOp = "add" =>
        \A k \in DOMAIN log :
            ~log[k].reused =>
                With(handlers[HandlerKey(log[k].descriptor.behaviors)].columns,
                     LAMBDA c :
                  With({m \in DOMAIN log[k].descriptor.behavior_data :
                          KindOfAttribute(log[k].descriptor.behavior_data[m].kind)
                              \in c.required_columns}, LAMBDA ms :
                    /\ \A m \in ms :
                         \A col \in OwnColumns(log[k].descriptor.behavior_data[m].kind) :
                            Get(c.packed[col], log[k].i)
                                = log[k].descriptor.behavior_data[m].v
                    /\ \A col \in PackedNames :
                         (/\ Has(c.packed[col], log[k].i)
                          /\ \A m \in ms :
                                col \notin OwnColumns(
                                    log[k].descriptor.behavior_data[m].kind))
                            => Get(c.packed[col], log[k].i) = PackedSpec(col).init))

\* The scalar attributes of a descriptor: those added to on death.
ScalarAttributes ==
    {"PosX", "PosY", "PosZ", "SizeX", "SizeY", "SizeZ", "MotionX", "MotionY",
     "MotionZ", "GravityX", "GravityY", "GravityZ", "Damage", "SpeedAccel"}

\* C31: on death, a scalar attribute of a next-stage descriptor is increased
\* by the dying slot's value of the same column kind if and only if that kind
\* is both required by the bucket and in the slot's additive mask; otherwise
\* it is emitted unchanged.
C31_AddedIffOwnKindRequiredAndMasked ==
    lastOp = "tick" =>
        \A k \in DOMAIN deaths :
            \A j \in DOMAIN deaths[k].emitted :
                \A m \in DOMAIN deaths[k].next_stage[j].behavior_data :
                    With(deaths[k].next_stage[j].behavior_data[m], LAMBDA datum :
                      datum.kind \in ScalarAttributes =>
                        deaths[k].emitted[j].d.behavior_data[m].v
                          = datum.v
                            + (IF KindOfAttribute(datum.kind)
                                    \in (deaths[k].required \cap deaths[k].add_data)
                               THEN deaths[k].held[datum.kind]
                               ELSE 0))

\* C32: the act of every catalog behavior indexes only columns its declared
\* required set allocates and only rows below the bucket's size, so no tick
\* aborts, whatever the lane width and the bucket's current_size.
C32_TickNeverAborts == ~(panicked /\ aborted = "tick")

\* C33: between operations, each bucket's current_dead holds exactly the
\* indices below current_size whose dead flag is true, each once, so
\* current_size - |current_dead| is the number of not-dead slots below
\* current_size.
C33_CurrentDeadIsDeadFlags ==
    ~panicked =>
        \A sig \in DOMAIN handlers :
            With(handlers[sig], LAMBDA h :
              /\ Range(h.columns.current_dead)
                    = {i \in 0 .. h.current_size - 1 : Get(h.columns.dead, i)}
              /\ \A j, k \in DOMAIN h.columns.current_dead :
                    h.columns.current_dead[j] = h.columns.current_dead[k] => j = k
              /\ h.current_size - Len(h.columns.current_dead)
                    = Cardinality(NotDeadSlots(h)))

\* C34: every projectile inserted by add_danmaku or by tick is recorded in
\* the depth map with a depth of at least 0, and no stored projectile has -1
\* in its bucket's family_depth column.
C34_DepthsResolved ==
    /\ \A k \in DOMAIN log :
          log[k].written =>
             /\ log[k].id \in DOMAIN global_family_depth_map
             /\ global_family_depth_map[log[k].id] >= 0
    /\ \A id \in DOMAIN global_family_depth_map : global_family_depth_map[id] # -1
    /\ \A sig \in DOMAIN handlers :
          \A x \in Stored(handlers[sig]) :
              Get(handlers[sig].columns.family_depth, x[1]) # -1

C36_SpawnsInsertedAfterBehaviors ==
    lastOp = "tick" =>
        /\ \A j, k \in DOMAIN log :
              (log[j].idx = <<>> /\ log[k].idx # <<>>) => k < j
        /\ \A k \in DOMAIN log :
              \A sig \in DOMAIN handlers :
                  (/\ handlers[sig].identifier = log[k].bucket
                   /\ Get(handlers[sig].columns.id, log[k].i) = log[k].id)
                  => Get(handlers[sig].columns.ticks_existed, log[k].i) = 0

\* C37: every entry render_data returns for an ID with a parent in the
\* parent map has that parent among the returned entries.
C37_RenderedWithParent ==
    lastOp = "render_data" =>
        \A x \in DOMAIN rendered :
            x \in DOMAIN global_parent_map
                => global_parent_map[x] \in DOMAIN rendered

\* C38: after an insertion into a reused slot, every allocated attribute
\* column holds at that slot the descriptor's value for the column or the
\* column's initial value: nothing of the previous occupant is left.
C38_ReusedSlotHoldsNoStaleValue ==
    \A k \in DOMAIN log :
        \A sig \in DOMAIN handlers :
            (/\ log[k].reused
             /\ handlers[sig].identifier = log[k].bucket
             /\ Get(handlers[sig].columns.id, log[k].i) = log[k].id)
            => \A col \in PackedNames :
                  Has(handlers[sig].columns.packed[col], log[k].i) =>
                     \/ Get(handlers[sig].columns.packed[col], log[k].i)
                           = PackedSpec(col).init
                     \/ \E m \in DOMAIN log[k].descriptor.behavior_data :
                           /\ col \in OwnColumns(log[k].descriptor.behavior_data[m].kind)
                           /\ Get(handlers[sig].columns.packed[col], log[k].i)
                                 = log[k].descriptor.behavior_data[m].v

\* C39: a tick of a bucket running rotate_orientation leaves, for every slot
\* i below the bucket's size, old_orientation[i] equal to orientation[i] as
\* it was before and orientation[i] equal to that value composed on the
\* right with rotation[i].
C39_RotateOrientationPerSlot ==
    [][(lastOp' = "tick" /\ trace' # trace /\ SigRO \in DOMAIN handlers) =>
          \A i \in 0 .. handlers[SigRO].current_size - 1 :
              /\ Get(handlers'[SigRO].columns.quats["old_orientation"], i)
                    = Get(handlers[SigRO].columns.quats["orientation"], i)
              /\ Get(handlers'[SigRO].columns.quats["orientation"], i)
                    = QMul(Get(handlers[SigRO].columns.quats["orientation"], i),
                           Get(handlers[SigRO].columns.quats["rotation"], i))]_vars

\* C40: under repeated ticks every projectile of a bucket running
\* mandatory_end is marked dead, whatever its end_time, before its
\* ticks_existed counter wraps: no projectile is still live with a counter
\* that has gone past the largest i16 and come back negative.
C40_DeadBeforeCounterWraps ==
    \A sig \in DOMAIN handlers :
        MANDATORY_END_BEHAVIOR_ID \in Range(handlers[sig].behaviors) =>
            \A x \in Stored(handlers[sig]) :
                ~Get(handlers[sig].columns.dead, x[1])
                    => Get(handlers[sig].columns.ticks_existed, x[1]) >= 0
============================================================================
